---- MODULE Spec2Model ----
(***************************************************************************)
(* Price pipeline of legendary-collectibles: the FX rate provider and the  *)
(* money helpers (src/lib/pricing.ts), the price-history endpoint          *)
(* (api/.../price-history route), the snapshot writer                      *)
(* (scripts/snapshotPrices.js) and the paginated concurrent eBay harvester *)
(* (scripts/cron/fetchYgoEbayPrices.mjs).                                  *)
(*                                                                         *)
(* Each program is a component with its own variables.  A component that   *)
(* is not the subject of a specification is switched off (its program      *)
(* counter is "off"), so the state spaces do not multiply.                 *)
(***************************************************************************)
EXTENDS Integers, Sequences, FiniteSets, TLC

VARIABLES
    \* ---- FX provider (pricing.ts) ----
    fxPc,          \* "off" | "env" (environment set, getFx not yet called) | "read"
    fxEnv,         \* process.env: [FX_USD_EUR, FX_EUR_USD], each an optional string
    fxOut,         \* the record getFx() returned: [usdToEur, eurToUsd]
    \* ---- money helpers (pricing.ts) ----
    prPc,          \* "off" | "ready" (environment set) | "done" (a helper returned)
    prEnv,         \* process.env: [FX_USD_EUR, FX_EUR_USD], each an optional string
    prCall,        \* the call made: [fn, n, from, to, raw, source, display]
    prOut,         \* what the call returned
    \* ---- price-history endpoint (route.ts) ----
    hsPc,          \* "off" | "request" | "responded"
    hsEnv,         \* process.env: [FX_USD_EUR, FX_EUR_USD]
    hsDb,          \* the three history tables: table -> sequence of rows
    hsReq,         \* the request: [category, cardId, days, markets, keys, display]
    hsResp,        \* the response: [status, days, series]
    \* ---- snapshot writer (snapshotPrices.js) ----
    snPc,          \* position of main(): "off", "idle", "begin", "select", "insert",
                   \*   "commit", "rollback", "end", "exited"
    snCur,         \* the three current-price tables: table -> sequence of rows
    snHist,        \* the three history tables as committed: table -> sequence of rows
    snPending,     \* rows inserted by the open transaction, not yet committed
    snTx,          \* state of the connection's transaction: "none", "open", "failed"
    snTab,         \* which snapshot function runs: 1 tcgplayer, 2 cardmarket, 3 ygo
    snRows,        \* rows the function's SELECT returned
    snIdx,         \* index in snRows of the next row to insert
    snCount,       \* the counts a, b, c the three functions return
    snExit,        \* exit code of the process (0 until set)
    snRun,         \* number of the run; also the captured_at the database assigns
    snFail,        \* which statement of the run failed ("none" if none)
    snHistAtStart, \* snHist as it was when the run started
    \* ---- harvester (fetchYgoEbayPrices.mjs) ----
    hvPc,          \* "off", "startup", "fatal", "query" (getIdsPage awaited),
                   \*   "pool" (poolRun awaited), "resume" (poolRun resolved),
                   \*   "sleep", "done", "crashed"
    hvEnv,         \* which of EBAY_CLIENT_ID, EBAY_CLIENT_SECRET, CRON_SECRET are set
    hvFlags,       \* command line: concurrency, limit, batch, startAfter, dryRun
    hvFile,        \* content of logs/ebay-ygo.cursor (0: no file)
    hvCursor,      \* cursor (0: null)
    hvProcessed,   \* processed
    hvFound,       \* found
    hvErrors,      \* errors
    hvIds,         \* ids, the batch of the current iteration
    hvIdx,         \* poolRun: idx
    hvInFlight,    \* poolRun: inFlight
    hvCalls,       \* per id of the batch: "none" (not dispatched), "sent" (fetch
                   \*   pending), "hung" (fetch pending, the endpoint will never
                   \*   answer), "settled" (result pushed, finally callback
                   \*   pending), "closed"
    hvResults,     \* poolRun: results, entries [id, err, res]
    hvExit,        \* exit code of the process
    hvRun,         \* number of the run
    hvBatchNo,     \* number of the iteration within the run
    \* history of the run, read by the properties only
    hvQueried,     \* getIdsPage was called
    hvCursorRead,  \* the cursor file was read
    hvWrote,       \* saveCursor was called
    hvSavedBatch,  \* iteration whose last id the cursor file holds (0: none of this run)
    hvFileAtStart, \* hvFile when the run started
    hvDoneLast,    \* last ids of the batches whose every id was dispatched and resolved
    hvSent,        \* per id: calls the running process dispatched for it
    hvResolved,    \* calls of resolveAll made by the poolRun of the iteration
    \* freshness filter
    hvDb,          \* the database: [ebayTable: public.ygo_card_prices_ebay exists,
                   \*   fresh: ids with a record updated within the window]
    hvHasTable,    \* HAS_YGO_EBAY_TABLE
    hvFiltered     \* the WHERE clause of the getIdsPage awaited has the NOT EXISTS part

fxVars == <<fxPc, fxEnv, fxOut>>
prVars == <<prPc, prEnv, prCall, prOut>>
hsVars == <<hsPc, hsEnv, hsDb, hsReq, hsResp>>
snVars == <<snPc, snCur, snHist, snPending, snTx, snTab, snRows, snIdx, snCount,
            snExit, snRun, snFail, snHistAtStart>>
hvVars == <<hvPc, hvEnv, hvFlags, hvFile, hvCursor, hvProcessed, hvFound, hvErrors,
            hvIds, hvIdx, hvInFlight, hvCalls, hvResults, hvExit, hvRun, hvBatchNo,
            hvQueried, hvCursorRead, hvWrote, hvSavedBatch, hvFileAtStart, hvDoneLast,
            hvSent, hvResolved, hvDb, hvHasTable, hvFiltered>>
vars == <<fxVars, prVars, hsVars, snVars, hvVars>>

\* What a step of one component leaves alone: every other component
FxFrame == UNCHANGED <<prVars, hsVars, snVars, hvVars>>
PrFrame == UNCHANGED <<fxVars, hsVars, snVars, hvVars>>
HsFrame == UNCHANGED <<fxVars, prVars, snVars, hvVars>>
SnFrame == UNCHANGED <<fxVars, prVars, hsVars, hvVars>>
HvFrame == UNCHANGED <<fxVars, prVars, hsVars, snVars>>

-----------------------------------------------------------------------------
(***************************************************************************)
(* JavaScript numbers.  A value is a record [k, n, d]:                     *)
(*   k = "num"  the rational n/d (d > 0),                                  *)
(*   k = "nan"  NaN,   k = "inf"  +Infinity (n = 1) or -Infinity (n = -1), *)
(*   k = "null" the JavaScript null.                                       *)
(* Rationals are not normalised; they are compared by cross product.       *)
(* Rounding of IEEE doubles is not modelled: 1/x is the exact reciprocal.  *)
(***************************************************************************)
Num(n, d) == [k |-> "num", n |-> n, d |-> d]
NaN       == [k |-> "nan", n |-> 0, d |-> 1]
Inf(s)    == [k |-> "inf", n |-> s, d |-> 1]
Null      == [k |-> "null", n |-> 0, d |-> 1]

\* Number.isFinite
IsFinite(x) == x.k = "num"

\* x > y on numbers; every comparison with NaN is false
NumGt(x, y) ==
    CASE x.k = "nan" \/ y.k = "nan" \/ x.k = "null" \/ y.k = "null" -> FALSE
      [] x.k = "inf" /\ y.k = "inf" -> x.n > y.n
      [] x.k = "inf" -> x.n > 0
      [] y.k = "inf" -> y.n < 0
      [] OTHER -> x.n * y.d > y.n * x.d

NumLt(x, y) == NumGt(y, x)
NumGe(x, y) == x.k \notin {"nan", "null"} /\ y.k \notin {"nan", "null"} /\ ~NumGt(y, x)
NumLe(x, y) == NumGe(y, x)

\* x === y on numbers (NaN equals nothing, null equals only null)
NumEq(x, y) ==
    CASE x.k = "nan" \/ y.k = "nan" -> FALSE
      [] x.k = "num" /\ y.k = "num" -> x.n * y.d = y.n * x.d
      [] OTHER -> x.k = y.k /\ x.n = y.n

\* 1 / x for a finite x > 0
Recip(x) == Num(x.d, x.n)

\* Math.max(a, b) and Math.min(a, b): NaN if either argument is NaN
MathMax(a, b) == IF a.k = "nan" \/ b.k = "nan" THEN NaN ELSE IF NumGe(a, b) THEN a ELSE b
MathMin(a, b) == IF a.k = "nan" \/ b.k = "nan" THEN NaN ELSE IF NumLe(a, b) THEN a ELSE b

(***************************************************************************)
(* Strings are sequences of one-character strings.  Number(string):        *)
(* surrounding white space is dropped, the empty string is 0, then an      *)
(* optional sign followed by "Infinity" or by digits with at most one      *)
(* period and at least one digit; anything else is NaN.  Exponents and     *)
(* radix prefixes are not modelled: no input below contains e, E, x, o, b  *)
(* after a digit.                                                          *)
(***************************************************************************)
Digits == {"0", "1", "2", "3", "4", "5", "6", "7", "8", "9"}

DigitVal(c) ==
    CASE c = "0" -> 0 [] c = "1" -> 1 [] c = "2" -> 2 [] c = "3" -> 3
      [] c = "4" -> 4 [] c = "5" -> 5 [] c = "6" -> 6 [] c = "7" -> 7
      [] c = "8" -> 8 [] c = "9" -> 9

RECURSIVE Pow10(_)
Pow10(n) == IF n = 0 THEN 1 ELSE 10 * Pow10(n - 1)

RECURSIVE DigitsValue(_)
DigitsValue(s) ==
    IF s = <<>> THEN 0
    ELSE 10 * DigitsValue(SubSeq(s, 1, Len(s) - 1)) + DigitVal(s[Len(s)])

AllDigits(s) == \A i \in 1..Len(s) : s[i] \in Digits

IsWhite(c) == c = " "

RECURSIVE TrimStart(_)
TrimStart(s) == IF s # <<>> /\ IsWhite(s[1]) THEN TrimStart(Tail(s)) ELSE s

RECURSIVE TrimEnd(_)
TrimEnd(s) ==
    IF s # <<>> /\ IsWhite(s[Len(s)]) THEN TrimEnd(SubSeq(s, 1, Len(s) - 1)) ELSE s

\* String.prototype.trim
Trim(s) == TrimEnd(TrimStart(s))

InfinityText == <<"I", "n", "f", "i", "n", "i", "t", "y">>

\* Number(s) for a string s
ToNumber(s) ==
    LET t == Trim(s) IN
    IF t = <<>> THEN Num(0, 1)
    ELSE
      LET signed == t[1] \in {"+", "-"}
          sgn    == IF t[1] = "-" THEN -1 ELSE 1
          body   == IF signed THEN Tail(t) ELSE t
          dots   == {i \in 1..Len(body) : body[i] = "."}
      IN
      IF body = InfinityText THEN Inf(sgn)
      ELSE IF Cardinality(dots) > 1 THEN NaN
      ELSE
        LET p  == IF dots = {} THEN Len(body) + 1 ELSE CHOOSE i \in dots : TRUE
            ip == SubSeq(body, 1, p - 1)
            fp == SubSeq(body, p + 1, Len(body))
        IN
        IF ~AllDigits(ip) \/ ~AllDigits(fp) \/ (ip = <<>> /\ fp = <<>>) THEN NaN
        ELSE Num(sgn * (DigitsValue(ip) * Pow10(Len(fp)) + DigitsValue(fp)),
                 Pow10(Len(fp)))

\* An optional string: an environment variable or a command-line flag
Unset      == [set |-> FALSE, v |-> <<>>]
Str(s)     == [set |-> TRUE, v |-> s]

-----------------------------------------------------------------------------
(***************************************************************************)
(* FX rate provider: getFx() of src/lib/pricing.ts                         *)
(***************************************************************************)

\* rawX != null && rawX !== "" ? Number(rawX) : NaN
FxParse(raw) == IF raw.set /\ raw.v # <<>> THEN ToNumber(raw.v) ELSE NaN

\* Number.isFinite(parsed) && parsed > 0
FxValid(raw) == IsFinite(FxParse(raw)) /\ NumGt(FxParse(raw), Num(0, 1))

\* Variant of getFx: the second block assigns only its own direction
getFxOwnDirectionOnly(rawUsdEur, rawEurUsd) ==
    LET first == IF FxValid(rawUsdEur)
                 THEN [usdToEur |-> FxParse(rawUsdEur), eurToUsd |-> Recip(FxParse(rawUsdEur))]
                 ELSE [usdToEur |-> Null, eurToUsd |-> Null]
    IN IF FxValid(rawEurUsd)
       THEN [first EXCEPT !.eurToUsd = FxParse(rawEurUsd)]
       ELSE first

\* Variant: validity accepts every finite number (the "> 0" test dropped)
getFxNoPositiveTest(rawUsdEur, rawEurUsd) ==
    LET ok(raw) == IsFinite(FxParse(raw))
        rec(x)  == IF x.n = 0 THEN Inf(1) ELSE IF x.n < 0 THEN Num(-x.d, -x.n) ELSE Recip(x)
        first == IF ok(rawUsdEur)
                 THEN [usdToEur |-> FxParse(rawUsdEur), eurToUsd |-> rec(FxParse(rawUsdEur))]
                 ELSE [usdToEur |-> Null, eurToUsd |-> Null]
    IN IF ok(rawEurUsd)
       THEN [usdToEur |-> rec(FxParse(rawEurUsd)), eurToUsd |-> FxParse(rawEurUsd)]
       ELSE first

\* getFx(): the two "if" blocks run in order, the second overwriting both
\* fields the first one set.
getFx(rawUsdEur, rawEurUsd) ==
    LET first == IF FxValid(rawUsdEur)
                 THEN [usdToEur |-> FxParse(rawUsdEur), eurToUsd |-> Recip(FxParse(rawUsdEur))]
                 ELSE [usdToEur |-> Null, eurToUsd |-> Null]
    IN IF FxValid(rawEurUsd)
       THEN [usdToEur |-> Recip(FxParse(rawEurUsd)), eurToUsd |-> FxParse(rawEurUsd)]
       ELSE first

\* Values the two environment variables are drawn from
FxRawValues ==
    { Unset,
      Str(<<>>),                       \* ""
      Str(<<" ">>),                    \* " "   (Number gives 0)
      Str(<<"a", "b", "c">>),          \* "abc"
      Str(<<"0">>),
      Str(<<"-", "1">>),
      Str(InfinityText),
      Str(<<"0", ".", "9", "2">>),
      Str(<<"1", ".", "2", "5">>),
      Str(<<"0", ".", "8">>),
      Str(<<"2">>) }

FxOff == fxPc = "off" /\ fxEnv = [usdEur |-> Unset, eurUsd |-> Unset]
                      /\ fxOut = [usdToEur |-> Null, eurToUsd |-> Null]

FxInit ==
    /\ fxPc = "env"
    /\ fxEnv \in [usdEur : FxRawValues, eurUsd : FxRawValues]
    /\ fxOut = [usdToEur |-> Null, eurToUsd |-> Null]

\* A caller reads the rates
GetFx ==
    /\ fxPc = "env"
    /\ fxOut' = getFx(fxEnv.usdEur, fxEnv.eurUsd)
    /\ fxPc' = "read"
    /\ UNCHANGED fxEnv
    /\ FxFrame

-----------------------------------------------------------------------------
(***************************************************************************)
(* Properties of the FX provider                                           *)
(***************************************************************************)
FxNulls == [usdToEur |-> Null, eurToUsd |-> Null]

\* A rate as the FX contract words it: missing, empty, non-numeric,
\* non-finite, zero or negative
FxUnusable(raw) ==
    \/ ~raw.set
    \/ raw.v = <<>>
    \/ ToNumber(raw.v).k # "num"
    \/ ToNumber(raw.v).n <= 0

FxRateEq(a, b) == IF a.k = "null" \/ b.k = "null" THEN a.k = b.k ELSE NumEq(a, b)

\* C8: when both directional rates are configured and valid, getFx returns
\* each direction exactly as configured, with no reciprocal derivation.
C8_BothStandAsGiven ==
    (fxPc = "read" /\ ~FxUnusable(fxEnv.usdEur) /\ ~FxUnusable(fxEnv.eurUsd))
        => /\ FxRateEq(fxOut.usdToEur, ToNumber(fxEnv.usdEur.v))
           /\ FxRateEq(fxOut.eurToUsd, ToNumber(fxEnv.eurUsd.v))

\* C9: when exactly one directional rate is valid, getFx returns that
\* direction as configured and the opposite direction as its reciprocal.
C9_OneDirectionReciprocal ==
    fxPc = "read" =>
        /\ (~FxUnusable(fxEnv.usdEur) /\ FxUnusable(fxEnv.eurUsd))
              => /\ FxRateEq(fxOut.usdToEur, ToNumber(fxEnv.usdEur.v))
                 /\ FxRateEq(fxOut.eurToUsd, Recip(ToNumber(fxEnv.usdEur.v)))
        /\ (FxUnusable(fxEnv.usdEur) /\ ~FxUnusable(fxEnv.eurUsd))
              => /\ FxRateEq(fxOut.eurToUsd, ToNumber(fxEnv.eurUsd.v))
                 /\ FxRateEq(fxOut.usdToEur, Recip(ToNumber(fxEnv.eurUsd.v)))

\* getFx was called with only FX_EUR_USD usable and FX_USD_EUR set to
\* something unusable
C9_Witness ==
    /\ fxPc = "read"
    /\ fxEnv.usdEur.set /\ FxUnusable(fxEnv.usdEur)
    /\ ~FxUnusable(fxEnv.eurUsd)
    /\ fxOut.usdToEur.k = "num"

\* What getFx returns when the value of one variable is set aside
FxFromUsdEurAlone(raw) ==
    IF FxUnusable(raw) THEN FxNulls
    ELSE [usdToEur |-> ToNumber(raw.v), eurToUsd |-> Recip(ToNumber(raw.v))]

FxFromEurUsdAlone(raw) ==
    IF FxUnusable(raw) THEN FxNulls
    ELSE [usdToEur |-> Recip(ToNumber(raw.v)), eurToUsd |-> ToNumber(raw.v)]

FxOutEq(a, b) == FxRateEq(a.usdToEur, b.usdToEur) /\ FxRateEq(a.eurToUsd, b.eurToUsd)

\* C10: a rate that is missing, empty, non-numeric, non-finite, zero or
\* negative has the effect of an absent rate (the result is the one the
\* other variable alone gives), and with no usable rate both directions
\* are null.
C10_InvalidIsAbsent ==
    fxPc = "read" =>
        /\ FxUnusable(fxEnv.usdEur) => FxOutEq(fxOut, FxFromEurUsdAlone(fxEnv.eurUsd))
        /\ FxUnusable(fxEnv.eurUsd) => FxOutEq(fxOut, FxFromUsdEurAlone(fxEnv.usdEur))
        /\ (FxUnusable(fxEnv.usdEur) /\ FxUnusable(fxEnv.eurUsd)) => fxOut = FxNulls

\* getFx was called with a negative FX_USD_EUR and a zero FX_EUR_USD
C10_Witness ==
    /\ fxPc = "read"
    /\ fxEnv.usdEur = Str(<<"-", "1">>)
    /\ fxEnv.eurUsd = Str(<<"0">>)
    /\ fxOut = FxNulls


-----------------------------------------------------------------------------
(***************************************************************************)
(* Snapshot writer: scripts/snapshotPrices.js                              *)
(***************************************************************************)
MaxRows         == 2     \* rows per current-price table
MaxSnapshotRuns == 2     \* runs of the script in one behaviour

Tables == 1..3           \* 1 tcg_card_prices_tcgplayer, 2 tcg_card_prices_cardmarket,
                         \* 3 ygo_card_prices (and their _history tables)

\* Number of money columns each snapshot function passes through the parser
MoneyColumns(t) == CASE t = 1 -> 5 [] t = 2 -> 15 [] t = 3 -> 5

\* Only tcg_card_prices_tcgplayer has a currency column
HasCurrency(t) == t = 1

\* Characters s.replace(/[\s,$...]/g, "") removes: white space, the comma,
\* the dollar sign and the euro, pound, yen and won signs (written here as
\* "EUR", "GBP", "YEN", "WON", each standing for the one character)
MoneyStripped == {" ", ",", "$", "EUR", "GBP", "YEN", "WON"}

RECURSIVE StripMoney(_)
StripMoney(s) ==
    IF s = <<>> THEN <<>>
    ELSE IF s[1] \in MoneyStripped THEN StripMoney(Tail(s))
    ELSE <<s[1]>> \o StripMoney(Tail(s))

Contains(s, c) == \E i \in 1..Len(s) : s[i] = c

\* s.replace(",", "."): the first comma becomes a period
ReplaceFirstComma(s) ==
    IF Contains(s, ",")
    THEN LET i == CHOOSE j \in 1..Len(s) : s[j] = "," /\ \A k \in 1..(j - 1) : s[k] # ","
         IN [s EXCEPT ![i] = "."]
    ELSE s

RemoveCommas(s) == SelectSeq(s, LAMBDA c : c # ",")

\* parseMoneyToNumber of snapshotPrices.js, for a text column (null or string)
SnapParseMoney(raw) ==
    IF ~raw.set THEN Null
    ELSE LET s0 == Trim(raw.v) IN
         IF s0 = <<>> THEN Null
         ELSE LET s1 == StripMoney(s0)
                  s2 == IF Contains(s1, ",") /\ ~Contains(s1, ".")
                        THEN ReplaceFirstComma(s1) ELSE s1
                  s3 == RemoveCommas(s2)
                  n  == ToNumber(s3)
              IN IF IsFinite(n) THEN n ELSE Null

\* Price texts found in the current-price tables
MoneyTexts ==
    << Str(<<"$", "3", ".", "5", "0">>),        \* "$3.50"
       Unset,                                    \* NULL
       Str(<<"1", ",", "2", "3", "4", ".", "5">>) >>   \* "1,234.5"

\* The row of table t for card id: every money column holds the text of id
CurrentRow(t, id) ==
    [card_id  |-> id,
     currency |-> IF HasCurrency(t) THEN "USD" ELSE "none",
     money    |-> [c \in 1..MoneyColumns(t) |-> MoneyTexts[((id + c) % 3) + 1]]]

\* Variant of HistoryRow: the money texts go through Number() alone
HistoryRowUnparsed(r, at) ==
    [card_id     |-> r.card_id,
     currency    |-> r.currency,
     money       |-> [c \in DOMAIN r.money |->
                        IF r.money[c].set THEN ToNumber(r.money[c].v) ELSE Null],
     captured_at |-> at]

\* The parameters of the INSERT for current row r, with the captured_at the
\* history table's default assigns
HistoryRow(r, at) ==
    [card_id     |-> r.card_id,
     currency    |-> r.currency,
     money       |-> [c \in DOMAIN r.money |-> SnapParseMoney(r.money[c])],
     captured_at |-> at]

NoRows == [t \in Tables |-> <<>>]

SnOff ==
    /\ snPc = "off" /\ snCur = NoRows /\ snHist = NoRows /\ snPending = NoRows
    /\ snTx = "none" /\ snTab = 1 /\ snRows = <<>> /\ snIdx = 1
    /\ snCount = [t \in Tables |-> 0] /\ snExit = 0 /\ snRun = 1
    /\ snFail = "none" /\ snHistAtStart = NoRows

SnInit ==
    /\ snPc = "idle"
    /\ \E n \in [Tables -> 0..MaxRows] :
          snCur = [t \in Tables |-> [i \in 1..n[t] |-> CurrentRow(t, i)]]
    /\ snHist = NoRows /\ snPending = NoRows
    /\ snTx = "none" /\ snTab = 1 /\ snRows = <<>> /\ snIdx = 1
    /\ snCount = [t \in Tables |-> 0] /\ snExit = 0 /\ snRun = 1
    /\ snFail = "none" /\ snHistAtStart = NoRows

\* ---- the database connection (pg Client against PostgreSQL) ----
\* Variant of DbBegin: the transaction is never opened, every statement
\* commits on its own
DbBeginAutocommit == UNCHANGED <<snTx, snHist, snPending>>

\* BEGIN
DbBegin == snTx' = "open" /\ UNCHANGED <<snHist, snPending>>

\* INSERT of row h into history table t: inside a transaction the row is
\* pending, outside one it is committed at once
DbInsert(t, h) ==
    /\ IF snTx = "open"
       THEN snPending' = [snPending EXCEPT ![t] = Append(@, h)] /\ UNCHANGED snHist
       ELSE snHist' = [snHist EXCEPT ![t] = Append(@, h)] /\ UNCHANGED snPending
    /\ UNCHANGED snTx

\* A statement that fails inside a transaction aborts the transaction
DbStatementFails ==
    /\ snTx' = IF snTx = "open" THEN "failed" ELSE snTx
    /\ UNCHANGED <<snHist, snPending>>

\* Variant of DbCommit: the rows of the run replace the rows of the table
DbCommitReplacing ==
    /\ snHist' = snPending
    /\ snPending' = NoRows
    /\ snTx' = "none"

\* COMMIT
DbCommit ==
    /\ snHist' = [t \in Tables |-> snHist[t] \o snPending[t]]
    /\ snPending' = NoRows
    /\ snTx' = "none"

\* ROLLBACK, and the end of a connection with a transaction in progress
DbRollback == snPending' = NoRows /\ snTx' = "none" /\ UNCHANGED snHist

\* ---- main() ----
\* !process.env.DATABASE_URL: process.exit(1)
SnMissingUrl ==
    /\ snPc = "idle"
    /\ snPc' = "exited" /\ snExit' = 1
    /\ UNCHANGED <<snCur, snHist, snPending, snTx, snTab, snRows, snIdx, snCount,
                   snRun, snFail, snHistAtStart>>
    /\ SnFrame

\* await client.connect() rejects: main() rejects before the try block
SnConnectFails ==
    /\ snPc = "idle"
    /\ snPc' = "exited" /\ snExit' = 1 /\ snFail' = "connect"
    /\ UNCHANGED <<snCur, snHist, snPending, snTx, snTab, snRows, snIdx, snCount,
                   snRun, snHistAtStart>>
    /\ SnFrame

\* client.connect() resolves; BEGIN is sent
SnConnect ==
    /\ snPc = "idle"
    /\ snPc' = "begin"
    /\ UNCHANGED <<snCur, snHist, snPending, snTx, snTab, snRows, snIdx, snCount,
                   snExit, snRun, snFail, snHistAtStart>>
    /\ SnFrame

\* await client.query("BEGIN") resolves; the first SELECT is sent
SnBegin ==
    /\ snPc = "begin"
    /\ DbBegin
    /\ snPc' = "select" /\ snTab' = 1
    /\ UNCHANGED <<snCur, snRows, snIdx, snCount, snExit, snRun, snFail, snHistAtStart>>
    /\ SnFrame

\* A statement rejects: control goes to the catch block, ROLLBACK is sent
SnStatementFails(pc, what) ==
    /\ snPc = pc
    /\ DbStatementFails
    /\ snPc' = "rollback" /\ snFail' = what
    /\ UNCHANGED <<snCur, snTab, snRows, snIdx, snCount, snExit, snRun, snHistAtStart>>
    /\ SnFrame

SnBeginFails  == SnStatementFails("begin", "begin")
SnSelectFails == SnStatementFails("select", "select")
SnInsertFails == SnStatementFails("insert", "insert")
SnCommitFails == SnStatementFails("commit", "commit")

\* Where main() goes when snapshot function t has returned
AfterTable(t) == IF t = 3 THEN "commit" ELSE "select"

\* The SELECT of snapshot function snTab resolves with all rows of the
\* current-price table; with no rows the function returns 0 at once
SnSelect ==
    /\ snPc = "select"
    /\ snRows' = snCur[snTab]
    /\ snIdx' = 1
    /\ snCount' = [snCount EXCEPT ![snTab] = 0]
    /\ IF snCur[snTab] = <<>>
       THEN snPc' = AfterTable(snTab) /\ snTab' = IF snTab = 3 THEN 3 ELSE snTab + 1
       ELSE snPc' = "insert" /\ UNCHANGED snTab
    /\ UNCHANGED <<snCur, snHist, snPending, snTx, snExit, snRun, snFail, snHistAtStart>>
    /\ SnFrame

\* The INSERT for row snIdx resolves; count++; after the last row the
\* function returns
SnInsert ==
    /\ snPc = "insert"
    /\ DbInsert(snTab, HistoryRow(snRows[snIdx], snRun))
    /\ snCount' = [snCount EXCEPT ![snTab] = @ + 1]
    /\ snIdx' = snIdx + 1
    /\ IF snIdx = Len(snRows)
       THEN snPc' = AfterTable(snTab) /\ snTab' = IF snTab = 3 THEN 3 ELSE snTab + 1
       ELSE UNCHANGED <<snPc, snTab>>
    /\ UNCHANGED <<snCur, snRows, snExit, snRun, snFail, snHistAtStart>>
    /\ SnFrame

\* await client.query("COMMIT") resolves
SnCommit ==
    /\ snPc = "commit"
    /\ DbCommit
    /\ snPc' = "end"
    /\ UNCHANGED <<snCur, snTab, snRows, snIdx, snCount, snExit, snRun, snFail,
                   snHistAtStart>>
    /\ SnFrame

\* catch: await client.query("ROLLBACK") resolves; process.exitCode = 1
SnRollback ==
    /\ snPc = "rollback"
    /\ DbRollback
    /\ snExit' = 1
    /\ snPc' = "end"
    /\ UNCHANGED <<snCur, snTab, snRows, snIdx, snCount, snRun, snFail, snHistAtStart>>
    /\ SnFrame

\* catch: ROLLBACK itself rejects; main() rejects after the finally block
SnRollbackFails ==
    /\ snPc = "rollback"
    /\ snExit' = 1
    /\ snPc' = "end"
    /\ UNCHANGED <<snCur, snHist, snPending, snTx, snTab, snRows, snIdx, snCount,
                   snRun, snFail, snHistAtStart>>
    /\ SnFrame

\* finally: client.end(); the server drops a transaction still in progress
SnEnd ==
    /\ snPc = "end"
    /\ DbRollback
    /\ snPc' = "exited"
    /\ UNCHANGED <<snCur, snTab, snRows, snIdx, snCount, snExit, snRun, snFail,
                   snHistAtStart>>
    /\ SnFrame

\* The scheduler starts the script again
SnNextRun ==
    /\ snPc = "exited"
    /\ snRun < MaxSnapshotRuns
    /\ snPc' = "idle"
    /\ snRun' = snRun + 1
    /\ snTab' = 1 /\ snRows' = <<>> /\ snIdx' = 1
    /\ snCount' = [t \in Tables |-> 0]
    /\ snExit' = 0 /\ snFail' = "none"
    /\ snHistAtStart' = snHist
    /\ UNCHANGED <<snCur, snHist, snPending, snTx>>
    /\ SnFrame

SnNext ==
    \/ SnMissingUrl \/ SnConnectFails \/ SnConnect
    \/ SnBegin \/ SnBeginFails
    \/ SnSelect \/ SnSelectFails
    \/ SnInsert \/ SnInsertFails
    \/ SnCommit \/ SnCommitFails
    \/ SnRollback \/ SnRollbackFails
    \/ SnEnd \/ SnNextRun

-----------------------------------------------------------------------------
(***************************************************************************)
(* Properties of the snapshot writer                                       *)
(***************************************************************************)

\* C1: if a select or an insert of a snapshot run fails, on any of the
\* three tables, then when the run has ended every history table holds
\* exactly the rows it held when the run started.
C1_SnapshotAtomic ==
    (snPc = "exited" /\ snFail \in {"select", "insert"}) => snHist = snHistAtStart

\* The second run inserted the rows of an earlier table, then an insert on
\* the last table failed, and the run has ended
C1_Witness ==
    /\ snPc = "exited" /\ snRun = 2
    /\ snFail = "insert" /\ snTab = 3
    /\ snCount[1] > 0 /\ snCount[2] > 0
    /\ snHistAtStart[1] # <<>>
    /\ snHist = snHistAtStart

\* A run ended with COMMIT done and exit code 0
SnSucceeded == snPc = "exited" /\ snExit = 0 /\ snFail = "none"

\* The rows history table t gained since the run started
RowsOfRun(t) == SubSeq(snHist[t], Len(snHistAtStart[t]) + 1, Len(snHist[t]))

\* C18: a successful run adds to each history table exactly one row per row
\* of the current-price table, with the same card id, the same currency and
\* every money column passed through the normalizer, and the counts it
\* reports are the row counts of the current-price tables.
C18_SnapshotCoverage ==
    SnSucceeded =>
      \A t \in Tables :
        /\ Len(RowsOfRun(t)) = Len(snCur[t])
        /\ snCount[t] = Len(snCur[t])
        /\ \A i \in 1..Len(snCur[t]) :
             /\ RowsOfRun(t)[i].card_id = snCur[t][i].card_id
             /\ RowsOfRun(t)[i].currency = snCur[t][i].currency
             /\ \A c \in 1..MoneyColumns(t) :
                  RowsOfRun(t)[i].money[c] = SnapParseMoney(snCur[t][i].money[c])

\* The second run succeeded on full tables, after a first run that left rows
C18_Witness ==
    /\ SnSucceeded /\ snRun = 2
    /\ \A t \in Tables : Len(snCur[t]) = MaxRows /\ snHistAtStart[t] # <<>>
    /\ \E c \in 1..MoneyColumns(1) : RowsOfRun(1)[1].money[c] = Null
    /\ \E c \in 1..MoneyColumns(1) : RowsOfRun(1)[1].money[c] # Null

\* s is an initial segment of t
IsPrefix(s, t) == Len(s) <= Len(t) /\ SubSeq(t, 1, Len(s)) = s

\* C19: no step of any run, successful or failed, changes or removes a row
\* a history table holds, and no step changes a current-price table.
C19_HistoryAppendOnly ==
    [][ /\ \A t \in Tables : IsPrefix(snHist[t], snHist'[t])
        /\ snCur' = snCur ]_vars

\* A failed second run ended with the rows of the first run in place
C19_Witness ==
    /\ snPc = "exited" /\ snRun = 2 /\ snExit = 1
    /\ \E t \in Tables : snHist[t] # <<>> /\ snHist[t][1].captured_at = 1

-----------------------------------------------------------------------------
-----------------------------------------------------------------------------
(***************************************************************************)
(* Harvester: scripts/cron/fetchYgoEbayPrices.mjs                          *)
(***************************************************************************)
NumIds         == 4     \* rows of public.ygo_cards; the card ids are 1..NumIds
MaxHarvestRuns == 2     \* runs of the script in one behaviour
BatchFloor     == 2     \* the floor Math.max(50, ...) puts under --batch, scaled
                        \* down with the id space so that a run has several batches

ConcurrencyCap     == 8
ConcurrencyDefault == <<"4">>
LimitDefault       == <<"0">>
BatchDefault       == <<"5", "0", "0">>

CardIds == 1..NumIds

\* flags.get(name) ?? dflt
FlagOr(flag, dflt) == IF flag.set THEN flag.v ELSE dflt

\* const CONCURRENCY = Math.min(8, Math.max(1, Number(flags.get('concurrency') ?? '4')))
CONCURRENCY ==
    MathMin(Num(ConcurrencyCap, 1),
            MathMax(Num(1, 1), ToNumber(FlagOr(hvFlags.concurrency, ConcurrencyDefault))))

\* const LIMIT = Number(flags.get('limit') ?? '0')
LIMIT == ToNumber(FlagOr(hvFlags.limit, LimitDefault))

\* const BATCH = Math.max(50, Number(flags.get('batch') ?? '500'))
BATCH == MathMax(Num(BatchFloor, 1), ToNumber(FlagOr(hvFlags.batch, BatchDefault)))

\* const START_AFTER = flags.get('startAfter') || null   (0: null)
START_AFTER == hvFlags.startAfter

\* const FLAG_ONLY_MISSING_EBAY = flags.has('only-missing-ebay')
FLAG_ONLY_MISSING_EBAY == hvFlags.onlyMissingEbay

\* Variant of DRY_RUN: the flag is not read
DryRunIgnored == FALSE

\* const DRY_RUN = flags.has('dry-run')
DRY_RUN == hvFlags.dryRun

\* Integer part of a finite number >= 0 (SQL LIMIT, Array.prototype.slice)
Floor(x) == x.n \div x.d

Min(a, b) == IF a <= b THEN a ELSE b

RECURSIVE Ascending(_)
Ascending(S) ==
    IF S = {} THEN <<>>
    ELSE LET m == CHOOSE x \in S : \A y \in S : x <= y
         IN <<m>> \o Ascending(S \ {m})

RECURSIVE Descending(_)
Descending(S) ==
    IF S = {} THEN <<>>
    ELSE LET m == CHOOSE x \in S : \A y \in S : x >= y
         IN <<m>> \o Descending(S \ {m})

\* Variant of getIdsPage: ORDER BY c.card_id DESC
getIdsPageDescending(after, limit) ==
    LET rows == Descending({i \in CardIds : after = 0 \/ i > after})
    IN SubSeq(rows, 1, Min(Floor(limit), Len(rows)))

\* Variant of getIdsPage: WHERE c.card_id >= after
getIdsPageInclusive(after, limit) ==
    LET rows == Ascending({i \in CardIds : after = 0 \/ i >= after})
    IN SubSeq(rows, 1, Min(Floor(limit), Len(rows)))

\* The test getIdsPage makes when it is called and builds its WHERE clause:
\* FLAG_ONLY_MISSING_EBAY && HAS_YGO_EBAY_TABLE
WhereNotFresh == FLAG_ONLY_MISSING_EBAY /\ hvHasTable

\* getIdsPage({ after, limit }): WHERE c.card_id > after (TRUE without a
\* cursor), AND NOT EXISTS (a fresh record) if the clause was built with
\* that part, ORDER BY c.card_id ASC LIMIT limit
getIdsPage(after, limit) ==
    LET rows == Ascending({i \in CardIds : /\ after = 0 \/ i > after
                                           /\ hvFiltered => i \notin hvDb.fresh})
    IN SubSeq(rows, 1, Min(Floor(limit), Len(rows)))

\* Variant of RemainingCap: the batch is never cut to the allowance
RemainingCapUntruncated(toFetch) == Num(Len(toFetch), 1)

\* remainingCap = LIMIT > 0 ? Math.max(0, LIMIT - processed) : toFetch.length
RemainingCap(toFetch) ==
    IF NumGt(LIMIT, Num(0, 1))
    THEN MathMax(Num(0, 1), Num(LIMIT.n - hvProcessed * LIMIT.d, LIMIT.d))
    ELSE Num(Len(toFetch), 1)

\* toFetch.slice(0, remainingCap)
BatchIds(toFetch) == SubSeq(toFetch, 1, Min(Floor(RemainingCap(toFetch)), Len(toFetch)))

\* LIMIT > 0 && processed >= LIMIT
LimitReached(processed) ==
    NumGt(LIMIT, Num(0, 1)) /\ NumGe(Num(processed, 1), LIMIT)

\* loadCursor(): START_AFTER if given, else the trimmed file content
loadCursor == IF START_AFTER # 0 THEN START_AFTER ELSE hvFile

\* Variant of ConfigMissing: the CRON_SECRET test is missing
ConfigMissingNoCronTest == ~hvEnv.clientId \/ ~hvEnv.clientSecret

\* !process.env.EBAY_CLIENT_ID || !process.env.EBAY_CLIENT_SECRET, then
\* !process.env.CRON_SECRET
ConfigMissing == ~hvEnv.clientId \/ ~hvEnv.clientSecret \/ ~hvEnv.cronSecret

\* What the endpoint does with one request
EndpointOutcomes ==
    {"transport", "non2xx", "nonjson", "found", "notfound", "mislabelled"}

\* fetchOne(id) as poolRun records it, [id, err, res]: a transport failure
\* and a non-2xx status reject; a 2xx answer whose body is not JSON resolves
\* to { ok: false, error: 'non-json-ok' }; a JSON answer resolves to its
\* body, also when its content type does not say JSON ("mislabelled", here
\* with a priced item as body)
fetchOne(id, outcome) ==
    CASE outcome = "transport"   -> [id |-> id, err |-> "Fetch failed", res |-> "null"]
      [] outcome = "non2xx"      -> [id |-> id, err |-> "HTTP", res |-> "null"]
      [] outcome = "nonjson"     -> [id |-> id, err |-> "null", res |-> "not-ok"]
      [] outcome = "found"       -> [id |-> id, err |-> "null", res |-> "ok-price"]
      [] outcome = "notfound"    -> [id |-> id, err |-> "null", res |-> "ok"]
      [] outcome = "mislabelled" -> [id |-> id, err |-> "null", res |-> "ok-price"]

\* launch(): the number of calls its while loop dispatches,
\* while (inFlight < concurrency && idx < ids.length)
RECURSIVE LaunchCount(_, _, _, _)
LaunchCount(inFlight, idx, len, concurrency) ==
    IF NumLt(Num(inFlight, 1), concurrency) /\ idx < len
    THEN 1 + LaunchCount(inFlight + 1, idx + 1, len, concurrency)
    ELSE 0

\* Variant of LaunchResolves: inFlight === 0 is not tested
LaunchResolvesEarly(inFlight, idx, len) == idx >= len

\* launch(): if (idx >= ids.length && inFlight === 0) return resolveAll(results)
LaunchResolves(inFlight, idx, len) == idx >= len /\ inFlight = 0

\* The calls after launch() dispatched k more ids
Dispatched(calls, ids, idx, k) ==
    [i \in CardIds |->
        IF \E j \in (idx + 1)..(idx + k) : ids[j] = i THEN "sent" ELSE calls[i]]

NoCalls == [i \in CardIds |-> "none"]

\* The dispatch counts after launch() dispatched k more ids
Sent(sent, ids, idx, k) ==
    [i \in CardIds |->
        sent[i] + Cardinality({j \in (idx + 1)..(idx + k) : ids[j] = i})]

NoneSent == [i \in CardIds |-> 0]

\* Variant of CountErrors: only a rejected call is counted
RECURSIVE CountErrorsRejected(_)
CountErrorsRejected(rs) ==
    IF rs = <<>> THEN 0
    ELSE (IF rs[1].err # "null" THEN 1 ELSE 0) + CountErrorsRejected(Tail(rs))

\* The for loop over results: errors++ for an error or a body that is not
\* ok, found++ for an ok body with a price
RECURSIVE CountErrors(_)
CountErrors(rs) ==
    IF rs = <<>> THEN 0
    ELSE (IF rs[1].err # "null" \/ rs[1].res = "not-ok" THEN 1 ELSE 0)
         + CountErrors(Tail(rs))

RECURSIVE CountFound(_)
CountFound(rs) ==
    IF rs = <<>> THEN 0
    ELSE (IF rs[1].err = "null" /\ rs[1].res = "ok-price" THEN 1 ELSE 0)
         + CountFound(Tail(rs))

\* Configurations a run is started with
HvConcurrencyFlags ==
    { Unset, Str(<<"1">>), Str(<<"1", ".", "5">>), Str(<<"9">>), Str(<<"a", "b", "c">>) }
HvLimitFlags == { Unset, Str(<<"3">>) }
HvBatchFlags == { Str(<<"1">>) }     \* below the floor: BATCH is the floor


HvOff ==
    /\ hvPc = "off"
    /\ hvEnv = [clientId |-> TRUE, clientSecret |-> TRUE, cronSecret |-> TRUE]
    /\ hvFlags = [concurrency |-> Unset, limit |-> Unset, batch |-> Unset,
                  startAfter |-> 0, dryRun |-> FALSE, onlyMissingEbay |-> FALSE]
    /\ hvFile = 0 /\ hvCursor = 0 /\ hvProcessed = 0 /\ hvFound = 0 /\ hvErrors = 0
    /\ hvIds = <<>> /\ hvIdx = 0 /\ hvInFlight = 0 /\ hvCalls = NoCalls
    /\ hvResults = <<>> /\ hvExit = 0 /\ hvRun = 1 /\ hvBatchNo = 0
    /\ hvQueried = FALSE /\ hvCursorRead = FALSE /\ hvWrote = FALSE
    /\ hvSavedBatch = 0 /\ hvFileAtStart = 0 /\ hvDoneLast = {}
    /\ hvSent = NoneSent /\ hvResolved = 0
    /\ hvDb = [ebayTable |-> FALSE, fresh |-> {}]
    /\ hvHasTable = FALSE /\ hvFiltered = FALSE

HvInit ==
    /\ hvPc = "startup"
    /\ hvEnv \in [clientId : BOOLEAN, clientSecret : BOOLEAN, cronSecret : BOOLEAN]
    /\ hvFlags \in [concurrency : HvConcurrencyFlags, limit : HvLimitFlags,
                    batch : HvBatchFlags, startAfter : {0, 1}, dryRun : BOOLEAN,
                    onlyMissingEbay : {FALSE}]
    /\ hvFile = 0 /\ hvCursor = 0 /\ hvProcessed = 0 /\ hvFound = 0 /\ hvErrors = 0
    /\ hvIds = <<>> /\ hvIdx = 0 /\ hvInFlight = 0 /\ hvCalls = NoCalls
    /\ hvResults = <<>> /\ hvExit = 0 /\ hvRun = 1 /\ hvBatchNo = 0
    /\ hvQueried = FALSE /\ hvCursorRead = FALSE /\ hvWrote = FALSE
    /\ hvSavedBatch = 0 /\ hvFileAtStart = 0 /\ hvDoneLast = {}
    /\ hvSent = NoneSent /\ hvResolved = 0
    /\ hvDb = [ebayTable |-> FALSE, fresh |-> {}]
    /\ hvHasTable = FALSE /\ hvFiltered = FALSE

\* What the database holds of public.ygo_card_prices_ebay: the table may
\* not exist; fresh are the ids with a record updated within DAYS_FRESH days
HvEbayTables ==
    { [ebayTable |-> FALSE, fresh |-> {}],
      [ebayTable |-> TRUE, fresh |-> {}],
      [ebayTable |-> TRUE, fresh |-> {1}],
      [ebayTable |-> TRUE, fresh |-> {2, 3}],
      [ebayTable |-> TRUE, fresh |-> CardIds] }

\* Runs started with --only-missing-ebay
HvInitFreshness ==
    /\ hvPc = "startup"
    /\ hvEnv \in [clientId : {TRUE}, clientSecret : {TRUE}, cronSecret : BOOLEAN]
    /\ hvFlags \in [concurrency : {Unset}, limit : HvLimitFlags,
                    batch : HvBatchFlags, startAfter : {0}, dryRun : BOOLEAN,
                    onlyMissingEbay : {TRUE}]
    /\ hvDb \in HvEbayTables
    /\ hvFile = 0 /\ hvCursor = 0 /\ hvProcessed = 0 /\ hvFound = 0 /\ hvErrors = 0
    /\ hvIds = <<>> /\ hvIdx = 0 /\ hvInFlight = 0 /\ hvCalls = NoCalls
    /\ hvResults = <<>> /\ hvExit = 0 /\ hvRun = 1 /\ hvBatchNo = 0
    /\ hvQueried = FALSE /\ hvCursorRead = FALSE /\ hvWrote = FALSE
    /\ hvSavedBatch = 0 /\ hvFileAtStart = 0 /\ hvDoneLast = {}
    /\ hvSent = NoneSent /\ hvResolved = 0
    /\ hvHasTable = FALSE /\ hvFiltered = FALSE

\* Runs whose calls all settle and whose process is not killed
HvLiveConcurrencyFlags == { Unset, Str(<<"1", ".", "5">>), Str(<<"a", "b", "c">>) }

HvInitLive ==
    /\ HvInit
    /\ hvEnv.clientId /\ hvEnv.clientSecret
    /\ hvFlags.concurrency \in HvLiveConcurrencyFlags
    /\ hvFlags.startAfter = 0

\* The batches poolRun is called with: the first n ids, from the empty batch
\* to one id more than the batch floor
HvBatches == {Ascending(1..n) : n \in 0..(BatchFloor + 1)}

\* Concurrency flags of the calls of poolRun: 1, 1.5 and the default 4
HvPoolConcurrencyFlags == { Unset, Str(<<"1">>), Str(<<"1", ".", "5">>) }

\* A caller is about to call poolRun(ids, CONCURRENCY)
HvInitPool ==
    /\ hvPc = "poolcall"
    /\ hvEnv = [clientId |-> TRUE, clientSecret |-> TRUE, cronSecret |-> TRUE]
    /\ hvFlags \in [concurrency : HvPoolConcurrencyFlags, limit : {Unset},
                    batch : {Unset}, startAfter : {0}, dryRun : {FALSE},
                    onlyMissingEbay : {FALSE}]
    /\ hvIds \in HvBatches
    /\ hvFile = 0 /\ hvCursor = 0 /\ hvProcessed = 0 /\ hvFound = 0 /\ hvErrors = 0
    /\ hvIdx = 0 /\ hvInFlight = 0 /\ hvCalls = NoCalls
    /\ hvResults = <<>> /\ hvExit = 0 /\ hvRun = 1 /\ hvBatchNo = 0
    /\ hvQueried = FALSE /\ hvCursorRead = FALSE /\ hvWrote = FALSE
    /\ hvSavedBatch = 0 /\ hvFileAtStart = 0 /\ hvDoneLast = {}
    /\ hvSent = NoneSent /\ hvResolved = 0
    /\ hvDb = [ebayTable |-> FALSE, fresh |-> {}]
    /\ hvHasTable = FALSE /\ hvFiltered = FALSE

\* poolRun(ids, concurrency) is called: the first launch() resolves at once
\* if ids is empty, else dispatches calls
HvPoolRun ==
    /\ hvPc = "poolcall"
    /\ LET k == LaunchCount(0, 0, Len(hvIds), CONCURRENCY) IN
         IF LaunchResolves(0, 0, Len(hvIds))
         THEN /\ hvPc' = "resume" /\ hvResolved' = hvResolved + 1
              /\ UNCHANGED <<hvIdx, hvInFlight, hvCalls, hvSent>>
         ELSE /\ hvPc' = "pool"
              /\ hvIdx' = k /\ hvInFlight' = k
              /\ hvCalls' = Dispatched(NoCalls, hvIds, 0, k)
              /\ hvSent' = Sent(hvSent, hvIds, 0, k)
              /\ UNCHANGED hvResolved
    /\ UNCHANGED <<hvEnv, hvFlags, hvFile, hvCursor, hvProcessed, hvFound, hvErrors,
                   hvIds, hvResults, hvExit, hvRun, hvBatchNo, hvQueried, hvCursorRead,
                   hvWrote, hvSavedBatch, hvFileAtStart, hvDoneLast, hvDb, hvHasTable,
                   hvFiltered>>
    /\ HvFrame

\* Module top level, lines 41-48: a missing credential ends the process
HvFatal ==
    /\ hvPc = "startup"
    /\ ConfigMissing
    /\ hvPc' = "fatal" /\ hvExit' = 1
    /\ UNCHANGED <<hvEnv, hvFlags, hvFile, hvCursor, hvProcessed, hvFound, hvErrors,
                   hvIds, hvIdx, hvInFlight, hvCalls, hvResults, hvRun, hvBatchNo,
                   hvQueried, hvCursorRead, hvWrote, hvSavedBatch, hvFileAtStart,
                   hvDoneLast>>
    /\ UNCHANGED <<hvSent, hvDb, hvHasTable, hvFiltered, hvResolved>>
    /\ HvFrame

\* Module top level with the credentials present: cursor = loadCursor(), and
\* the loop's first getIdsPage is awaited
HvStart ==
    /\ hvPc = "startup"
    /\ ~ConfigMissing
    /\ hvCursor' = loadCursor
    /\ hvCursorRead' = (START_AFTER = 0)
    /\ hvQueried' = TRUE
    /\ hvFiltered' = WhereNotFresh
    /\ hvPc' = "query"
    /\ UNCHANGED <<hvEnv, hvFlags, hvFile, hvProcessed, hvFound, hvErrors, hvIds, hvIdx,
                   hvInFlight, hvCalls, hvResults, hvExit, hvRun, hvBatchNo, hvWrote,
                   hvSavedBatch, hvFileAtStart, hvDoneLast>>
    /\ UNCHANGED <<hvSent, hvDb, hvHasTable, hvResolved>>
    /\ HvFrame

\* getIdsPage resolves with no id, or the limit leaves no id: break, and the
\* script ends
HvBatchEmpty ==
    /\ hvPc = "query"
    /\ BatchIds(getIdsPage(hvCursor, BATCH)) = <<>>
    /\ hvPc' = "done" /\ hvExit' = 0
    /\ UNCHANGED <<hvEnv, hvFlags, hvFile, hvCursor, hvProcessed, hvFound, hvErrors,
                   hvIds, hvIdx, hvInFlight, hvCalls, hvResults, hvRun, hvBatchNo,
                   hvQueried, hvCursorRead, hvWrote, hvSavedBatch, hvFileAtStart,
                   hvDoneLast>>
    /\ UNCHANGED <<hvSent, hvDb, hvHasTable, hvFiltered, hvResolved>>
    /\ HvFrame

\* saveCursor(id): writeFileSync, a failure of which is swallowed
SaveCursor(id, written, batchNo) ==
    /\ hvFile' = IF written THEN id ELSE hvFile
    /\ hvSavedBatch' = IF written THEN batchNo ELSE hvSavedBatch
    /\ hvWrote' = TRUE

\* Lines 229-235: processed += ids.length; cursor = last id; saveCursor;
\* break at the limit, else sleep
AdvanceCursor(ids, written, batchNo) ==
    /\ hvProcessed' = hvProcessed + Len(ids)
    /\ hvCursor' = ids[Len(ids)]
    /\ SaveCursor(ids[Len(ids)], written, batchNo)
    /\ IF LimitReached(hvProcessed + Len(ids))
       THEN hvPc' = "done" /\ hvExit' = 0
       ELSE hvPc' = "sleep" /\ UNCHANGED hvExit

\* getIdsPage resolves with ids and DRY_RUN is set: no dispatch, the rest of
\* the iteration runs at once
HvBatchDry ==
    /\ hvPc = "query"
    /\ DRY_RUN
    /\ LET ids == BatchIds(getIdsPage(hvCursor, BATCH)) IN
         /\ ids # <<>>
         /\ hvIds' = ids
         /\ hvBatchNo' = hvBatchNo + 1
         /\ \E written \in BOOLEAN : AdvanceCursor(ids, written, hvBatchNo + 1)
    /\ hvCalls' = NoCalls /\ hvResults' = <<>> /\ hvIdx' = 0 /\ hvInFlight' = 0
    /\ UNCHANGED <<hvEnv, hvFlags, hvFound, hvErrors, hvRun, hvQueried, hvCursorRead,
                   hvFileAtStart, hvDoneLast>>
    /\ UNCHANGED <<hvSent, hvDb, hvHasTable, hvFiltered, hvResolved>>
    /\ HvFrame

\* getIdsPage resolves with ids: poolRun(ids, CONCURRENCY) is called and its
\* first launch() dispatches calls
HvBatchDispatch ==
    /\ hvPc = "query"
    /\ ~DRY_RUN
    /\ \E ids \in {BatchIds(getIdsPage(hvCursor, BATCH))} :
       \E k \in {LaunchCount(0, 0, Len(ids), CONCURRENCY)} :
         /\ ids # <<>>
         /\ hvIds' = ids
         /\ hvIdx' = k /\ hvInFlight' = k
         /\ hvCalls' = Dispatched(NoCalls, ids, 0, k)
         /\ hvSent' = Sent(hvSent, ids, 0, k)
    /\ hvResults' = <<>> /\ hvResolved' = 0
    /\ hvBatchNo' = hvBatchNo + 1
    /\ hvPc' = "pool"
    /\ UNCHANGED <<hvEnv, hvFlags, hvFile, hvCursor, hvProcessed, hvFound, hvErrors,
                   hvExit, hvRun, hvQueried, hvCursorRead, hvWrote, hvSavedBatch,
                   hvFileAtStart, hvDoneLast>>
    /\ UNCHANGED <<hvDb, hvHasTable, hvFiltered>>
    /\ HvFrame

\* The endpoint will never answer the call for id; fetch sets no timeout
\* and passes no abort signal
HvEndpointHangs(id) ==
    /\ hvCalls[id] = "sent"
    /\ hvCalls' = [hvCalls EXCEPT ![id] = "hung"]
    /\ UNCHANGED <<hvPc, hvEnv, hvFlags, hvFile, hvCursor, hvProcessed, hvFound,
                   hvErrors, hvIds, hvIdx, hvInFlight, hvResults, hvExit, hvRun,
                   hvBatchNo, hvQueried, hvCursorRead, hvWrote, hvSavedBatch,
                   hvFileAtStart, hvDoneLast>>
    /\ UNCHANGED <<hvSent, hvDb, hvHasTable, hvFiltered, hvResolved>>
    /\ HvFrame

\* Variant of HvSettle: the catch callback is missing, a rejected call
\* pushes nothing
HvSettleNoCatch(id, outcome) ==
    /\ hvCalls[id] = "sent"
    /\ hvCalls' = [hvCalls EXCEPT ![id] = "settled"]
    /\ hvResults' = IF fetchOne(id, outcome).err # "null"
                    THEN hvResults
                    ELSE Append(hvResults, fetchOne(id, outcome))
    /\ UNCHANGED <<hvPc, hvEnv, hvFlags, hvFile, hvCursor, hvProcessed, hvFound,
                   hvErrors, hvIds, hvIdx, hvInFlight, hvExit, hvRun, hvBatchNo,
                   hvQueried, hvCursorRead, hvWrote, hvSavedBatch, hvFileAtStart,
                   hvDoneLast>>
    /\ UNCHANGED <<hvSent, hvDb, hvHasTable, hvFiltered, hvResolved>>
    /\ HvFrame

\* fetchOne(id) settles: the then or the catch callback pushes its entry
HvSettle(id, outcome) ==
    /\ hvCalls[id] = "sent"
    /\ hvCalls' = [hvCalls EXCEPT ![id] = "settled"]
    /\ hvResults' = Append(hvResults, fetchOne(id, outcome))
    /\ UNCHANGED <<hvPc, hvEnv, hvFlags, hvFile, hvCursor, hvProcessed, hvFound,
                   hvErrors, hvIds, hvIdx, hvInFlight, hvExit, hvRun, hvBatchNo,
                   hvQueried, hvCursorRead, hvWrote, hvSavedBatch, hvFileAtStart,
                   hvDoneLast>>
    /\ UNCHANGED <<hvSent, hvDb, hvHasTable, hvFiltered, hvResolved>>
    /\ HvFrame

\* Variant of HvFinally: a call that failed ends the pool at once, as
\* Promise.all would
HvFinallyFailFast(id) ==
    /\ hvCalls[id] = "settled"
    /\ hvInFlight' = hvInFlight - 1
    /\ hvCalls' = [hvCalls EXCEPT ![id] = "closed"]
    /\ IF \/ \E j \in 1..Len(hvResults) : hvResults[j].id = id /\ hvResults[j].err # "null"
          \/ (hvIdx >= Len(hvIds) /\ hvInFlight = 1)
       THEN hvPc' = (IF hvPc = "pool" THEN "resume" ELSE hvPc) /\ UNCHANGED hvIdx
       ELSE /\ hvIdx' = hvIdx
            /\ UNCHANGED hvPc
    /\ UNCHANGED <<hvEnv, hvFlags, hvFile, hvCursor, hvProcessed, hvFound, hvErrors,
                   hvIds, hvResults, hvExit, hvRun, hvBatchNo, hvQueried, hvCursorRead,
                   hvWrote, hvSavedBatch, hvFileAtStart, hvDoneLast>>
    /\ UNCHANGED <<hvSent, hvDb, hvHasTable, hvFiltered, hvResolved>>
    /\ HvFrame

\* The finally callback of the call for id: inFlight--; launch()
HvFinally(id) ==
    /\ hvCalls[id] = "settled"
    /\ IF LaunchResolves(hvInFlight - 1, hvIdx, Len(hvIds))
       THEN /\ hvPc' = IF hvPc = "pool" THEN "resume" ELSE hvPc
            /\ hvInFlight' = hvInFlight - 1
            /\ hvCalls' = [hvCalls EXCEPT ![id] = "closed"]
            /\ hvResolved' = hvResolved + 1
            /\ UNCHANGED <<hvIdx, hvSent>>
       ELSE \E k \in {LaunchCount(hvInFlight - 1, hvIdx, Len(hvIds), CONCURRENCY)} :
            /\ UNCHANGED hvResolved
            /\ hvInFlight' = hvInFlight - 1 + k
            /\ hvIdx' = hvIdx + k
            /\ hvSent' = Sent(hvSent, hvIds, hvIdx, k)
            /\ hvCalls' = Dispatched([hvCalls EXCEPT ![id] = "closed"], hvIds, hvIdx, k)
            /\ UNCHANGED hvPc
    /\ UNCHANGED <<hvEnv, hvFlags, hvFile, hvCursor, hvProcessed, hvFound, hvErrors,
                   hvIds, hvResults, hvExit, hvRun, hvBatchNo, hvQueried, hvCursorRead,
                   hvWrote, hvSavedBatch, hvFileAtStart, hvDoneLast>>
    /\ UNCHANGED <<hvDb, hvHasTable, hvFiltered>>
    /\ HvFrame

\* await poolRun(...) resumes: the results are counted, then lines 229-235;
\* results is local to the iteration and goes with it
HvAdvance ==
    /\ hvPc = "resume"
    /\ hvErrors' = hvErrors + CountErrors(hvResults)
    /\ hvFound' = hvFound + CountFound(hvResults)
    /\ \E written \in BOOLEAN : AdvanceCursor(hvIds, written, hvBatchNo)
    /\ hvDoneLast' = IF \A j \in 1..Len(hvIds) : hvCalls[hvIds[j]] = "closed"
                     THEN hvDoneLast \cup {hvIds[Len(hvIds)]}
                     ELSE hvDoneLast
    /\ hvResults' = <<>> /\ hvResolved' = 0
    /\ UNCHANGED <<hvEnv, hvFlags, hvIds, hvIdx, hvInFlight, hvCalls, hvRun, hvBatchNo,
                   hvQueried, hvCursorRead, hvFileAtStart>>
    /\ UNCHANGED <<hvSent, hvDb, hvHasTable, hvFiltered>>
    /\ HvFrame

\* await sleep(100) resumes: the next getIdsPage is awaited
HvSleep ==
    /\ hvPc = "sleep"
    /\ hvPc' = "query"
    /\ hvFiltered' = WhereNotFresh
    /\ UNCHANGED <<hvEnv, hvFlags, hvFile, hvCursor, hvProcessed, hvFound, hvErrors,
                   hvIds, hvIdx, hvInFlight, hvCalls, hvResults, hvExit, hvRun,
                   hvBatchNo, hvQueried, hvCursorRead, hvWrote, hvSavedBatch,
                   hvFileAtStart, hvDoneLast>>
    /\ UNCHANGED <<hvSent, hvDb, hvHasTable, hvResolved>>
    /\ HvFrame

\* The process dies (killed, or a database query rejects): its memory and
\* its pending calls are gone, the cursor file stays
HvCrash ==
    /\ hvPc \in {"query", "pool", "resume", "sleep"}
    /\ hvPc' = "crashed" /\ hvExit' = 1
    /\ hvCalls' = NoCalls /\ hvResults' = <<>> /\ hvIdx' = 0 /\ hvInFlight' = 0
    /\ hvSent' = NoneSent /\ hvResolved' = 0
    /\ UNCHANGED <<hvEnv, hvFlags, hvFile, hvCursor, hvProcessed, hvFound, hvErrors,
                   hvIds, hvRun, hvBatchNo, hvQueried, hvCursorRead, hvWrote,
                   hvSavedBatch, hvFileAtStart, hvDoneLast>>
    /\ UNCHANGED <<hvDb, hvHasTable, hvFiltered>>
    /\ HvFrame

\* The scheduler starts the script again, with the same environment and flags
HvRestart ==
    /\ hvPc \in {"done", "crashed", "fatal"}
    /\ hvRun < MaxHarvestRuns
    /\ hvPc' = "startup"
    /\ hvRun' = hvRun + 1
    /\ hvCursor' = 0 /\ hvProcessed' = 0 /\ hvFound' = 0 /\ hvErrors' = 0
    /\ hvIds' = <<>> /\ hvIdx' = 0 /\ hvInFlight' = 0 /\ hvCalls' = NoCalls
    /\ hvResults' = <<>> /\ hvExit' = 0 /\ hvBatchNo' = 0
    /\ hvQueried' = FALSE /\ hvCursorRead' = FALSE /\ hvWrote' = FALSE
    /\ hvSavedBatch' = 0 /\ hvFileAtStart' = hvFile /\ hvDoneLast' = {}
    /\ hvSent' = NoneSent /\ hvResolved' = 0
    /\ hvHasTable' = FALSE /\ hvFiltered' = FALSE
    /\ UNCHANGED <<hvEnv, hvFlags, hvFile>>
    /\ UNCHANGED <<hvDb>>
    /\ HvFrame

\* The probe of lines 68-71 resolves and finds the table: the assignment to
\* HAS_YGO_EBAY_TABLE runs in a later turn of the event loop than the
\* module's synchronous code, which has called the first getIdsPage by
\* then.  A probe that finds no table or rejects changes nothing.
HvProbeResolves ==
    /\ hvPc \in {"query", "pool", "resume", "sleep"}
    /\ hvDb.ebayTable /\ ~hvHasTable
    /\ hvHasTable' = TRUE
    /\ UNCHANGED <<hvPc, hvEnv, hvFlags, hvFile, hvCursor, hvProcessed, hvFound,
                   hvErrors, hvIds, hvIdx, hvInFlight, hvCalls, hvResults, hvExit,
                   hvRun, hvBatchNo, hvQueried, hvCursorRead, hvWrote, hvSavedBatch,
                   hvFileAtStart, hvDoneLast, hvSent, hvDb, hvFiltered, hvResolved>>
    /\ HvFrame

HvCallSettles == \E id \in CardIds, o \in EndpointOutcomes : HvSettle(id, o)
HvCallHangs   == \E id \in CardIds : HvEndpointHangs(id)
HvCallCloses  == \E id \in CardIds : HvFinally(id)

HvNext ==
    \/ HvFatal \/ HvStart
    \/ HvBatchEmpty \/ HvBatchDry \/ HvBatchDispatch
    \/ HvCallSettles \/ HvCallHangs \/ HvCallCloses
    \/ HvAdvance \/ HvSleep
    \/ HvCrash \/ HvRestart

-----------------------------------------------------------------------------
(***************************************************************************)
(* Properties of the harvester                                             *)
(***************************************************************************)
BatchSet == {hvIds[j] : j \in 1..Len(hvIds)}

\* One of the three required environment variables is not set
ConfigMissingAtStart == \E v \in DOMAIN hvEnv : ~hvEnv[v]

\* External calls in flight: dispatched and not yet settled
InFlightCalls == {i \in CardIds : hvCalls[i] \in {"sent", "hung"}}

\* C2: in a non-dry run the cursor file is overwritten with the last id of
\* a batch only after every request of that batch has resolved: while the
\* file holds the last id written for the current batch, no request of the
\* batch is in flight, awaiting its callbacks, or not yet dispatched.
C2_CursorAfterBatch ==
    (~DRY_RUN /\ hvPc # "crashed" /\ hvBatchNo > 0 /\ hvSavedBatch = hvBatchNo)
        => /\ hvFile = hvIds[Len(hvIds)]
           /\ \A i \in BatchSet : hvCalls[i] = "closed"
           /\ hvPc \in {"sleep", "query", "done"}

\* The second batch of a non-dry run, of two ids, has been saved
C2_Witness ==
    /\ ~DRY_RUN /\ hvBatchNo = 2 /\ hvSavedBatch = 2
    /\ Len(hvIds) = 2 /\ hvFile = hvIds[2]
    /\ hvPc = "sleep"

ConcurrencyIsNumeric ==
    ToNumber(FlagOr(hvFlags.concurrency, ConcurrencyDefault)).k # "nan"

\* C3: for every numeric --concurrency value the configured concurrency is
\* at least 1 and at most 8, and the number of external calls in flight at
\* the same time never exceeds it.
C3_ConcurrencyBound ==
    ConcurrencyIsNumeric
        => /\ NumGe(CONCURRENCY, Num(1, 1))
           /\ NumLe(CONCURRENCY, Num(ConcurrencyCap, 1))
           /\ NumLe(Num(Cardinality(InFlightCalls), 1), CONCURRENCY)

\* The first id above a cursor value, 0 if there is none
FirstIdAfter(c) ==
    IF \E i \in CardIds : i > c
    THEN CHOOSE i \in CardIds : i > c /\ \A k \in CardIds : k > c => i <= k
    ELSE 0

\* C4: at every point of a run, hence wherever it crashes, the cursor file
\* holds the value it had when the run started or the last id of a batch
\* whose requests had all resolved; the first batch of a later run started
\* without --startAfter begins at the first id above that value.
C4_Resumable ==
    /\ hvPc # "off" => hvFile \in {hvFileAtStart} \cup hvDoneLast
    /\ (hvRun > 1 /\ START_AFTER = 0 /\ hvBatchNo = 1)
           => hvIds[1] = FirstIdAfter(hvFileAtStart)

\* C5: every call in flight still resolves, also when the endpoint never
\* answers it: no batch stays blocked on a pending request.
C5_CallsResolve ==
    \A i \in CardIds :
        hvCalls[i] \in {"sent", "hung"}
            => ENABLED (\E o \in EndpointOutcomes : HvSettle(i, o))

HasFailure(rs) == \E j \in 1..Len(rs) : rs[j].err # "null"

EveryIdOnce(rs, ids) ==
    /\ Len(rs) = Len(ids)
    /\ \A j \in 1..Len(ids) : Cardinality({k \in 1..Len(rs) : rs[k].id = ids[j]}) = 1

C7_ConfigFatal ==
    (hvPc # "off" /\ ConfigMissingAtStart)
        => /\ hvPc \in {"startup", "fatal"}
           /\ hvPc = "fatal" => hvExit # 0
           /\ ~hvQueried /\ ~hvCursorRead /\ ~hvWrote
           /\ hvBatchNo = 0 /\ hvCalls = NoCalls /\ hvResults = <<>>
           /\ hvFile = hvFileAtStart /\ hvCursor = 0

\* The run ended fatal with only CRON_SECRET missing
C7_Witness ==
    /\ hvPc = "fatal" /\ hvExit = 1
    /\ hvEnv.clientId /\ hvEnv.clientSecret /\ ~hvEnv.cronSecret


\* C20: in a dry run no call is dispatched for any id of any batch, at any
\* moment of the run, and the found and error counters stay at zero.
C20_DryRunNoCalls ==
    (hvPc # "off" /\ hvFlags.dryRun) =>
      /\ \A id \in CardIds : hvCalls[id] = "none"
      /\ hvInFlight = 0 /\ hvResults = <<>>
      /\ hvFound = 0 /\ hvErrors = 0

\* A dry run went through more than one batch and ended
C20_Witness ==
    /\ hvFlags.dryRun /\ hvPc = "done"
    /\ hvBatchNo > 1 /\ hvProcessed > BatchFloor

\* The loop of the running process is between two batches
AtBatchBoundary == hvPc \in {"query", "sleep", "done"}

\* No call of the running process is in flight or awaits a callback
NoCallPending ==
    /\ hvInFlight = 0
    /\ \A i \in CardIds : hvCalls[i] \in {"none", "closed"}

\* C21: with --limit=N, N > 0, the number of ids processed in a run never
\* exceeds N, the loop goes on only below N and the run is DONE as soon as N
\* is reached; with N = 0 a run is DONE only when no id is left above the
\* cursor; and the run turns DONE only at a batch boundary, with no call in
\* flight.
C21_ItemLimit ==
    (hvPc \notin {"off", "startup", "fatal"}) =>
      /\ NumGt(LIMIT, Num(0, 1)) =>
            /\ NumLe(Num(hvProcessed, 1), LIMIT)
            /\ (hvPc \in {"query", "pool", "resume", "sleep"})
                 => NumLt(Num(hvProcessed, 1), LIMIT)
      /\ (hvPc = "done") =>
            /\ \/ NumGt(LIMIT, Num(0, 1)) /\ NumEq(Num(hvProcessed, 1), LIMIT)
               \/ getIdsPage(hvCursor, BATCH) = <<>>
            /\ NoCallPending

\* A step of the loop that forms a batch: the batch is at most BATCH ids,
\* ascending, all above the cursor of the query and above every id of the
\* batch before it
BatchFormedInOrder ==
    (hvBatchNo' = hvBatchNo + 1) =>
      /\ NumLe(Num(Len(hvIds'), 1), BATCH)
      /\ \A j \in 1..Len(hvIds') : hvIds'[j] > hvCursor
      /\ \A j, k \in 1..Len(hvIds') : j < k => hvIds'[j] < hvIds'[k]
      /\ \A j \in 1..Len(hvIds), k \in 1..Len(hvIds') : hvIds[j] < hvIds'[k]

\* C22 as stated: every batch is formed in order, and neither the cursor in
\* memory nor the cursor file decreases during a run.
C22_BatchOrdering ==
    [][(hvPc # "off" /\ hvRun' = hvRun) =>
          /\ BatchFormedInOrder
          /\ hvCursor' >= hvCursor
          /\ hvFile' >= hvFile]_vars

\* C22, amended: every batch is formed in order and the cursor in memory
\* never decreases during a run; the cursor file never decreases during a
\* run started without --startAfter.
C22_BatchOrderingNoOverride ==
    [][(hvPc # "off" /\ hvRun' = hvRun) =>
          /\ BatchFormedInOrder
          /\ hvCursor' >= hvCursor
          /\ (START_AFTER = 0) => hvFile' >= hvFile]_vars

\* A run started from the cursor file wrote the last id of its second batch
C22_Witness ==
    /\ START_AFTER = 0 /\ hvBatchNo = 2 /\ hvSavedBatch = 2
    /\ hvFile = hvIds[Len(hvIds)] /\ hvFile > hvFileAtStart
    /\ hvCursor = hvFile

\* The entries of rs that a call with one of the outcomes leaves
EntriesOf(rs, outcomes) ==
    {j \in 1..Len(rs) : \E o \in outcomes : rs[j] = fetchOne(rs[j].id, o)}

\* C26: when the loop has counted the results of a dispatched batch, every
\* id of the batch has exactly one entry, the error counter went up by the
\* number of ids whose call met a transport failure, a non-2xx status or a
\* 2xx body that is not JSON, the found counter by the number of ids
\* answered with a priced item, and these and the ids answered "not found"
\* add up to the batch.
C26_Classification ==
    [][(hvPc = "resume" /\ hvPc' \in {"sleep", "done"}) =>
          /\ \A i \in BatchSet :
                Cardinality({j \in 1..Len(hvResults) : hvResults[j].id = i}) = 1
          /\ hvErrors' - hvErrors =
                Cardinality(EntriesOf(hvResults, {"transport", "non2xx", "nonjson"}))
          /\ hvFound' - hvFound =
                Cardinality(EntriesOf(hvResults, {"found", "mislabelled"}))
          /\ (hvErrors' - hvErrors) + (hvFound' - hvFound)
               + Cardinality(EntriesOf(hvResults, {"notfound"})) = Len(hvIds)]_vars

\* A dispatched batch of two was counted: one id as an error, the other as
\* found
C26_Witness ==
    /\ hvPc = "sleep" /\ hvBatchNo = 1 /\ Len(hvIds) = 2
    /\ hvErrors = 1 /\ hvFound = 1
    /\ hvDoneLast # {}

\* C23: in a run with --only-missing-ebay over a database that has the
\* secondary price table, no batch, the first included, holds an id with a
\* fresh secondary price record, whenever the table probe resolves.
C23_FreshnessFilter ==
    (hvPc \notin {"off", "startup", "fatal"}
       /\ FLAG_ONLY_MISSING_EBAY /\ hvDb.ebayTable) =>
      \A j \in 1..Len(hvIds) : hvIds[j] \notin hvDb.fresh

C30_Termination ==
    /\ (hvPc = "query") ~> (hvPc = "done")
    /\ []((hvPc = "done" /\ hvProcessed = 0) => hvExit = 0)

\* C27: a dry run leaves the cursor file as it found it: at every moment of
\* a run started with --dry-run the file holds what it held when the run
\* started.
C27_DryRunKeepsCursor ==
    (hvPc # "off" /\ DRY_RUN) => hvFile = hvFileAtStart

\* The cursor the run started from: loadCursor() at line 195
StartingCursor == IF START_AFTER # 0 THEN START_AFTER ELSE hvFileAtStart

\* C29: in a non-dry run without freshness filter no id is dispatched
\* twice, and at every batch boundary, the end of the run included, the ids
\* above the starting cursor and up to the cursor have been dispatched
\* exactly once and no other id has been dispatched; the ids above the
\* cursor, those the limit cut off included, are above the cursor file
\* whenever the file was written for the last batch.
C29_NoSkipNoRepeat ==
    (hvPc \notin {"off", "startup", "fatal", "crashed"}
       /\ ~DRY_RUN /\ ~FLAG_ONLY_MISSING_EBAY) =>
      /\ \A i \in CardIds : hvSent[i] <= 1
      /\ AtBatchBoundary =>
            /\ \A i \in CardIds :
                  hvSent[i] = IF i > StartingCursor /\ i <= hvCursor THEN 1 ELSE 0
            /\ (hvBatchNo > 0 /\ hvSavedBatch = hvBatchNo) =>
                  \A i \in CardIds : i > hvCursor => i > hvFile

\* A run with --limit=3 ended: ids 1..3 were dispatched once each, id 4 was
\* cut off from the second batch and is above the cursor file
C29_Witness ==
    /\ ~DRY_RUN /\ hvPc = "done" /\ NumEq(LIMIT, Num(3, 1))
    /\ StartingCursor = 0 /\ hvCursor = 3 /\ hvFile = 3
    /\ hvSent = [i \in CardIds |-> IF i <= 3 THEN 1 ELSE 0]
    /\ getIdsPage(hvCursor, BATCH) # <<>>

\* A run with --limit=3 is DONE with 3 ids processed, its last batch cut to
\* the one id the allowance left
C21_Witness ==
    /\ hvPc = "done" /\ NumEq(LIMIT, Num(3, 1)) /\ hvProcessed = 3
    /\ hvBatchNo = 2 /\ Len(hvIds) = 1
    /\ getIdsPage(hvCursor, BATCH) # <<>>

-----------------------------------------------------------------------------
(***************************************************************************)
(* Money helpers of src/lib/pricing.ts: parseMoneyToNumber, convert,       *)
(* formatMoney, maybeFormat                                                *)
(***************************************************************************)

\* Variant of parseMoneyToNumber: Number(s) is returned as it is
parseMoneyToNumberUnchecked(raw) ==
    IF ~raw.set \/ raw.v = <<>> THEN Null
    ELSE LET s0 == Trim(raw.v) IN
         IF s0 = <<>> THEN Null
         ELSE LET s1 == StripMoney(s0)
                  s2 == IF Contains(s1, ",") /\ ~Contains(s1, ".")
                        THEN ReplaceFirstComma(s1) ELSE s1
              IN ToNumber(RemoveCommas(s2))

\* Variant of parseMoneyToNumber: the first replace leaves the commas, so
\* the decimal-comma rule applies
parseMoneyToNumberKeepsCommas(raw) ==
    IF ~raw.set \/ raw.v = <<>> THEN Null
    ELSE LET s0 == Trim(raw.v) IN
         IF s0 = <<>> THEN Null
         ELSE LET s1 == SelectSeq(s0, LAMBDA c : c \notin MoneyStripped \ {","})
                  s2 == IF Contains(s1, ",") /\ ~Contains(s1, ".")
                        THEN ReplaceFirstComma(s1) ELSE s1
                  s3 == RemoveCommas(s2)
                  n  == ToNumber(s3)
              IN IF IsFinite(n) THEN n ELSE Null

\* parseMoneyToNumber(raw): "!raw" holds for null, undefined and ""; the
\* first replace removes white space, currency signs and every comma, so the
\* decimal-comma test that follows never finds a comma
parseMoneyToNumber(raw) ==
    IF ~raw.set \/ raw.v = <<>> THEN Null
    ELSE LET s0 == Trim(raw.v) IN
         IF s0 = <<>> THEN Null
         ELSE LET s1 == StripMoney(s0)
                  s2 == IF Contains(s1, ",") /\ ~Contains(s1, ".")
                        THEN ReplaceFirstComma(s1) ELSE s1
                  s3 == RemoveCommas(s2)
                  n  == ToNumber(s3)
              IN IF IsFinite(n) THEN n ELSE Null

\* n * rate for finite numbers
Times(x, y) == Num(x.n * y.n, x.d * y.d)

\* A rate in a condition: null, 0 and NaN are falsy
Truthy(x) == x.k = "inf" \/ (x.k = "num" /\ x.n # 0)

\* Variant of convert: without a rate the amount is returned 1:1
convertOneToOne(n, from, to, env) ==
    LET fx == getFx(env.usdEur, env.eurUsd) IN
    IF from = to THEN n
    ELSE IF from = "USD" /\ to = "EUR" /\ Truthy(fx.usdToEur) THEN Times(n, fx.usdToEur)
    ELSE IF from = "EUR" /\ to = "USD" /\ Truthy(fx.eurToUsd) THEN Times(n, fx.eurToUsd)
    ELSE n

\* The body of convert(n, from, to), fx being what its getFx() call returns
convertRates(n, from, to, fx) ==
    IF from = to THEN n
    ELSE IF from = "USD" /\ to = "EUR" /\ Truthy(fx.usdToEur) THEN Times(n, fx.usdToEur)
    ELSE IF from = "EUR" /\ to = "USD" /\ Truthy(fx.eurToUsd) THEN Times(n, fx.eurToUsd)
    ELSE Null

\* convert(n, from, to), reading the rates from the environment env
convert(n, from, to, env) == convertRates(n, from, to, getFx(env.usdEur, env.eurUsd))

DigitChar(v) == CHOOSE c \in Digits : DigitVal(c) = v

\* Decimal digits of a natural number
RECURSIVE NatDigits(_)
NatDigits(n) ==
    IF n < 10 THEN <<DigitChar(n)>> ELSE NatDigits(n \div 10) \o <<DigitChar(n % 10)>>

\* en-US grouping: a comma before every group of three digits
RECURSIVE Grouped(_)
Grouped(ds) ==
    IF Len(ds) <= 3 THEN ds
    ELSE Grouped(SubSeq(ds, 1, Len(ds) - 3)) \o <<",">> \o SubSeq(ds, Len(ds) - 2, Len(ds))

\* The sign Intl.NumberFormat("en-US", {style: "currency"}) writes for a
\* currency ("EUR" stands for the euro sign, one character)
CurrencySymbol(currency) == IF currency = "USD" THEN "$" ELSE "EUR"

\* formatMoney(n, currency) for a finite n: sign, currency sign, grouped
\* integer part, period, two fraction digits; halves round away from zero
formatMoney(n, currency) ==
    LET abs   == IF n.n < 0 THEN -n.n ELSE n.n
        cents == (2 * abs * 100 + n.d) \div (2 * n.d)
        frac  == cents % 100
    IN (IF n.n < 0 THEN <<"-">> ELSE <<>>)
       \o <<CurrencySymbol(currency)>>
       \o Grouped(NatDigits(cents \div 100))
       \o <<".", DigitChar(frac \div 10), DigitChar(frac % 10)>>

\* Variant of maybeFormat: no text when the conversion has no rate
maybeFormatHidesUnconverted(valueText, source, display, env) ==
    LET n == parseMoneyToNumber(valueText) IN
    IF n = Null THEN Unset
    ELSE IF display = "NATIVE" \/ display = source THEN Str(formatMoney(n, source))
    ELSE LET converted == convert(n, source, display, env) IN
         IF converted = Null THEN Unset
         ELSE Str(formatMoney(converted, display))

\* maybeFormat(valueText, source, display); Unset is the null result
maybeFormat(valueText, source, display, env) ==
    LET n == parseMoneyToNumber(valueText) IN
    IF n = Null THEN Unset
    ELSE IF display = "NATIVE" \/ display = source THEN Str(formatMoney(n, source))
    ELSE LET converted == convert(n, source, display, env) IN
         IF converted = Null THEN Str(formatMoney(n, source))
         ELSE Str(formatMoney(converted, display))

Currencies == {"USD", "EUR"}
Displays   == {"NATIVE", "USD", "EUR"}

\* Inputs of the helpers
PrRawRates == { Unset, Str(<<"0", ".", "8">>), Str(<<"a", "b", "c">>), Str(<<"0">>) }
PrAmounts  == { Num(0, 1), Num(25, 2), Num(-3, 1), Num(1999, 100) }
PrTexts ==
    { Unset,
      Str(<<>>),
      Str(<<" ", " ">>),
      Str(<<"a", "b", "c">>),
      Str(InfinityText),
      Str(<<"$">>),
      Str(<<"EUR", " ", ",">>),                                        \* "E ,"
      Str(<<"3", ".", "5">>),
      Str(<<"-", "2">>),
      Str(<<"$", "1", ",", "2", "3", "4", ".", "5", "6">>),            \* "$1,234.56"
      Str(<<"1", "2", ",", "5", "0">>),                                \* "12,50"
      Str(<<"1", ".", "2", "3", "4", ",", "5", "6", " ", "EUR">>) }    \* "1.234,56 E"

NoCall == [fn |-> "none", n |-> Null, from |-> "USD", to |-> "USD",
           raw |-> Unset, source |-> "USD", display |-> "NATIVE"]

PrOff == prPc = "off" /\ prEnv = [usdEur |-> Unset, eurUsd |-> Unset]
                      /\ prCall = NoCall /\ prOut = Null

PrInit ==
    /\ prPc = "ready"
    /\ prEnv \in [usdEur : PrRawRates, eurUsd : PrRawRates]
    /\ prCall = NoCall
    /\ prOut = Null

\* A caller converts an amount
PrConvert ==
    /\ prPc = "ready"
    /\ \E n \in PrAmounts, from \in Currencies, to \in Currencies :
         /\ prCall' = [NoCall EXCEPT !.fn = "convert", !.n = n, !.from = from, !.to = to]
         /\ prOut' = convert(n, from, to, prEnv)
    /\ prPc' = "done"
    /\ UNCHANGED prEnv
    /\ PrFrame

\* A caller parses a price text
PrParseMoney ==
    /\ prPc = "ready"
    /\ \E raw \in PrTexts :
         /\ prCall' = [NoCall EXCEPT !.fn = "parse", !.raw = raw]
         /\ prOut' = parseMoneyToNumber(raw)
    /\ prPc' = "done"
    /\ UNCHANGED prEnv
    /\ PrFrame

\* A caller formats a price text for display
PrMaybeFormat ==
    /\ prPc = "ready"
    /\ \E raw \in PrTexts, source \in Currencies, display \in Displays :
         /\ prCall' = [NoCall EXCEPT !.fn = "maybeFormat", !.raw = raw,
                                     !.source = source, !.display = display]
         /\ prOut' = maybeFormat(raw, source, display, prEnv)
    /\ prPc' = "done"
    /\ UNCHANGED prEnv
    /\ PrFrame

PrNext == PrConvert \/ PrParseMoney \/ PrMaybeFormat

-----------------------------------------------------------------------------
(***************************************************************************)
(* Properties of the money helpers                                         *)
(***************************************************************************)
PrDone(fn) == prPc = "done" /\ prCall.fn = fn

\* The rate getFx() holds for the direction from -> to (Null: not available)
DirectionRate(env, from, to) ==
    LET fx == getFx(env.usdEur, env.eurUsd) IN
    IF from = "USD" /\ to = "EUR" THEN fx.usdToEur ELSE fx.eurToUsd

\* x is the product of the finite numbers a and b
IsProduct(x, a, b) == x.k = "num" /\ x.n * (a.d * b.d) = a.n * b.n * x.d

\* C11: convert returns the amount unchanged when from equals to, whatever
\* the FX configuration; when from differs from to it returns the amount
\* times the rate of that direction if getFx has one, and null otherwise.
C11_ConvertOrNull ==
    PrDone("convert") =>
      LET rate == DirectionRate(prEnv, prCall.from, prCall.to) IN
      /\ prCall.from = prCall.to => prOut = prCall.n
      /\ prCall.from # prCall.to /\ rate # Null => IsProduct(prOut, prCall.n, rate)
      /\ prCall.from # prCall.to /\ rate = Null => prOut = Null

\* A conversion between different currencies was asked for without any rate
C11_Witness ==
    /\ PrDone("convert")
    /\ prCall.from # prCall.to
    /\ prCall.n.n # 0
    /\ DirectionRate(prEnv, prCall.from, prCall.to) = Null

\* C12: maybeFormat returns null exactly when the text parses to null; a
\* known amount whose conversion to the display currency has no rate is
\* formatted in the source currency, with the source currency's sign.
C12_NeverHidesKnownPrice ==
    PrDone("maybeFormat") =>
      LET n == parseMoneyToNumber(prCall.raw) IN
      /\ prOut = Unset <=> n = Null
      /\ ( /\ n # Null
           /\ prCall.display \notin {"NATIVE", prCall.source}
           /\ DirectionRate(prEnv, prCall.source, prCall.display) = Null )
         => /\ prOut = Str(formatMoney(n, prCall.source))
            /\ Contains(prOut.v, CurrencySymbol(prCall.source))
            /\ ~Contains(prOut.v, CurrencySymbol(prCall.display))

\* A known amount was to be shown in the other currency and no rate exists
C12_Witness ==
    /\ PrDone("maybeFormat")
    /\ parseMoneyToNumber(prCall.raw) # Null
    /\ prCall.display \notin {"NATIVE", prCall.source}
    /\ DirectionRate(prEnv, prCall.source, prCall.display) = Null
    /\ prOut.set

\* The text with white space and currency signs removed and the first comma
\* read as the decimal separator
DecimalCommaValue(s) ==
    ToNumber(ReplaceFirstComma(SelectSeq(s, LAMBDA c : c \notin MoneyStripped \ {","})))

\* C13: a text with a comma and no period is parsed with the comma as the
\* decimal separator ("12,50" is 12.5), and "1.234,56 E" is 1234.56.
C13_DecimalComma ==
    PrDone("parse") /\ prCall.raw.set =>
      /\ Contains(prCall.raw.v, ",") /\ ~Contains(prCall.raw.v, ".")
           => NumEq(prOut, DecimalCommaValue(prCall.raw.v))
      /\ prCall.raw.v = <<"1", "2", ",", "5", "0">> => NumEq(prOut, Num(125, 10))
      /\ prCall.raw.v = <<"1", ".", "2", "3", "4", ",", "5", "6", " ", "EUR">>
           => NumEq(prOut, Num(123456, 100))

C24_ParserEquivalence ==
    PrDone("parse") => prOut = SnapParseMoney(prCall.raw)

\* The live parser read "$1,234.56" as 1234.56, as the snapshot parser does
C24_Witness ==
    /\ PrDone("parse")
    /\ prCall.raw = Str(<<"$", "1", ",", "2", "3", "4", ".", "5", "6">>)
    /\ prOut # Null /\ NumEq(prOut, Num(123456, 100))
    /\ SnapParseMoney(prCall.raw) = prOut

\* C25: a non-empty text without a digit parses to null, and the parser
\* returns 0 only for a text with the digit 0 in it.
C25_UnknownIsNotZero ==
    (PrDone("parse") /\ prCall.raw.set /\ prCall.raw.v # <<>>) =>
      /\ (\A i \in 1..Len(prCall.raw.v) : prCall.raw.v[i] \notin Digits)
           => prOut = Null
      /\ (prOut # Null /\ NumEq(prOut, Num(0, 1))) => Contains(prCall.raw.v, "0")

-----------------------------------------------------------------------------
(***************************************************************************)
(* Price-history endpoint: GET of the price-history route                  *)
(***************************************************************************)
\* Limits of clampDays and the default of the days parameter
DaysMin     == 1
DaysMax     == 365
DaysDefault == 90
HsNow       == 400      \* now() of the queries, in days

\* String.prototype.toLowerCase and toUpperCase, letter by letter
Lower(c) ==
    CASE c = "A" -> "a" [] c = "B" -> "b" [] c = "C" -> "c"
      [] c = "D" -> "d" [] c = "E" -> "e" [] c = "F" -> "f"
      [] c = "G" -> "g" [] c = "H" -> "h" [] c = "I" -> "i"
      [] c = "J" -> "j" [] c = "K" -> "k" [] c = "L" -> "l"
      [] c = "M" -> "m" [] c = "N" -> "n" [] c = "O" -> "o"
      [] c = "P" -> "p" [] c = "Q" -> "q" [] c = "R" -> "r"
      [] c = "S" -> "s" [] c = "T" -> "t" [] c = "U" -> "u"
      [] c = "V" -> "v" [] c = "W" -> "w" [] c = "X" -> "x"
      [] c = "Y" -> "y" [] c = "Z" -> "z"
      [] OTHER -> c

Upper(c) ==
    CASE c = "a" -> "A" [] c = "b" -> "B" [] c = "c" -> "C"
      [] c = "d" -> "D" [] c = "e" -> "E" [] c = "f" -> "F"
      [] c = "g" -> "G" [] c = "h" -> "H" [] c = "i" -> "I"
      [] c = "j" -> "J" [] c = "k" -> "K" [] c = "l" -> "L"
      [] c = "m" -> "M" [] c = "n" -> "N" [] c = "o" -> "O"
      [] c = "p" -> "P" [] c = "q" -> "Q" [] c = "r" -> "R"
      [] c = "s" -> "S" [] c = "t" -> "T" [] c = "u" -> "U"
      [] c = "v" -> "V" [] c = "w" -> "W" [] c = "x" -> "X"
      [] c = "y" -> "Y" [] c = "z" -> "Z"
      [] OTHER -> c

ToLowerCase(s) == [i \in 1..Len(s) |-> Lower(s[i])]
ToUpperCase(s) == [i \in 1..Len(s) |-> Upper(s[i])]

\* s.split(",")
RECURSIVE SplitComma(_)
SplitComma(s) ==
    IF ~Contains(s, ",") THEN <<s>>
    ELSE LET i == CHOOSE j \in 1..Len(s) : s[j] = "," /\ \A k \in 1..(j - 1) : s[k] # ","
         IN <<SubSeq(s, 1, i - 1)>> \o SplitComma(SubSeq(s, i + 1, Len(s)))

SetOf(seq) == {seq[i] : i \in DOMAIN seq}

\* readDisplay(sp), for a request without the alias parameter "currency"
readDisplay(param) ==
    IF param.set /\ ToUpperCase(param.v) = <<"U", "S", "D">> THEN "USD"
    ELSE IF param.set /\ ToUpperCase(param.v) = <<"E", "U", "R">> THEN "EUR"
    ELSE "NATIVE"

\* Variant of clampDays: the value is floored and not clamped
clampDaysUnclamped(x) ==
    IF ~IsFinite(x) THEN Num(DaysDefault, 1) ELSE Num(Floor(x), 1)

\* clampDays(x)
clampDays(x) ==
    IF ~IsFinite(x) THEN Num(DaysDefault, 1)
    ELSE MathMin(Num(DaysMax, 1), MathMax(Num(DaysMin, 1), Num(Floor(x), 1)))

\* num(v) for a numeric column, which the driver delivers as text or null
num(v) ==
    IF ~v.set THEN Null
    ELSE LET n == ToNumber(v.v) IN IF IsFinite(n) THEN n ELSE Null

\* convMaybe(n, from, display); fx is what getFx() returns during the request
convMaybe(n, from, display, fx) ==
    IF n = Null THEN Null
    ELSE IF display = "NATIVE" THEN n
    ELSE LET out == convertRates(n, from, display, fx) IN
         IF out = Null THEN n ELSE out

\* The filters of GET: undefined (given = FALSE) for an absent or empty
\* parameter; the entries are trimmed, empty entries dropped; the entries of
\* markets are lower-cased, the entries of keys are not
marketsFilterOf(param) ==
    IF param.set /\ param.v # <<>>
    THEN [given |-> TRUE,
          set |-> {ToLowerCase(Trim(e)) : e \in SetOf(SplitComma(param.v))} \ {<<>>}]
    ELSE [given |-> FALSE, set |-> {}]

keysFilterOf(param) ==
    IF param.set /\ param.v # <<>>
    THEN [given |-> TRUE,
          set |-> {Trim(e) : e \in SetOf(SplitComma(param.v))} \ {<<>>}]
    ELSE [given |-> FALSE, set |-> {}]

\* !filter || filter.has(name)
Passes(filter, name) == ~filter.given \/ name \in filter.set

\* Names of the markets as the filters and the series spell them
TCGPLAYER    == <<"t", "c", "g", "p", "l", "a", "y", "e", "r">>
CARDMARKET   == <<"c", "a", "r", "d", "m", "a", "r", "k", "e", "t">>
EBAY         == <<"e", "b", "a", "y">>
AMAZON       == <<"a", "m", "a", "z", "o", "n">>
COOLSTUFFINC == <<"c", "o", "o", "l", "s", "t", "u", "f", "f", "i", "n", "c">>
TCGplayerName    == <<"T", "C", "G", "p", "l", "a", "y", "e", "r">>
CardmarketName   == <<"C", "a", "r", "d", "m", "a", "r", "k", "e", "t">>
EBayName         == <<"e", "B", "a", "y">>
AmazonName       == <<"A", "m", "a", "z", "o", "n">>
CoolStuffIncName == <<"C", "o", "o", "l", "S", "t", "u", "f", "f", "I", "n", "c">>
PriceKey         == <<"p", "r", "i", "c", "e">>

\* tpKeysAll, cmKeysAll and the price columns of ygo_card_prices_history
tpKeysAll ==
    << <<"n", "o", "r", "m", "a", "l">>,
       <<"h", "o", "l", "o", "f", "o", "i", "l">>,
       <<"r", "e", "v", "e", "r", "s", "e", "_", "h", "o", "l", "o", "f", "o", "i", "l">>,
       <<"f", "i", "r", "s", "t", "_", "e", "d", "i", "t", "i", "o", "n", "_", "h", "o", "l", "o", "f", "o", "i", "l">>,
       <<"f", "i", "r", "s", "t", "_", "e", "d", "i", "t", "i", "o", "n", "_", "n", "o", "r", "m", "a", "l">> >>
cmKeysAll ==
    << <<"t", "r", "e", "n", "d", "_", "p", "r", "i", "c", "e">>,
       <<"a", "v", "e", "r", "a", "g", "e", "_", "s", "e", "l", "l", "_", "p", "r", "i", "c", "e">>,
       <<"l", "o", "w", "_", "p", "r", "i", "c", "e">>,
       <<"s", "u", "g", "g", "e", "s", "t", "e", "d", "_", "p", "r", "i", "c", "e">> >>
YgoTcgplayerPrice    == <<"t", "c", "g", "p", "l", "a", "y", "e", "r", "_", "p", "r", "i", "c", "e">>
YgoCardmarketPrice   == <<"c", "a", "r", "d", "m", "a", "r", "k", "e", "t", "_", "p", "r", "i", "c", "e">>
YgoEbayPrice         == <<"e", "b", "a", "y", "_", "p", "r", "i", "c", "e">>
YgoAmazonPrice       == <<"a", "m", "a", "z", "o", "n", "_", "p", "r", "i", "c", "e">>
YgoCoolstuffincPrice == <<"c", "o", "o", "l", "s", "t", "u", "f", "f", "i", "n", "c", "_", "p", "r", "i", "c", "e">>
YgoColumns ==
    <<YgoTcgplayerPrice, YgoCardmarketPrice, YgoEbayPrice, YgoAmazonPrice,
      YgoCoolstuffincPrice>>

\* A row of a history table: the card, the instant captured_at (in days),
\* the currency text (tcgplayer table only) and the price columns as the
\* driver delivers them
HistRow(cardId, at, currency, keys, priced) ==
    [card_id |-> cardId, captured_at |-> at, currency |-> currency,
     cols |-> [k \in SetOf(keys) |-> IF k \in DOMAIN priced THEN priced[k] ELSE Unset]]

Card1 == <<"c", "1">>      \* has priced rows in every table
Card2 == <<"c", "2">>      \* has no history row
Card3 == <<"c", "3">>      \* has rows whose every price is NULL

\* The history tables, rows in the order they were stored
HsHistory ==
    [t \in Tables |->
       CASE t = 1 ->
              << HistRow(Card1, HsNow - 1, Str(<<"U", "S", "D">>), tpKeysAll,
                         (tpKeysAll[1] :> Str(<<"3", ".", "5">>)) @@ (tpKeysAll[2] :> Str(<<"N", "a", "N">>))),
                 HistRow(Card1, HsNow - 50, Str(<<"U", "S", "D">>), tpKeysAll, (tpKeysAll[1] :> Str(<<"3", ".", "2", "5">>))),
                 HistRow(Card3, HsNow - 1, Unset, tpKeysAll, <<>>),
                 HistRow(Card1, HsNow - DaysMax - 1, Str(<<"U", "S", "D">>), tpKeysAll,
                         (tpKeysAll[1] :> Str(<<"9">>))) >>
         [] t = 2 ->
              << HistRow(Card1, HsNow - 2, Unset, cmKeysAll, (cmKeysAll[1] :> Str(<<"2">>))),
                 HistRow(Card3, HsNow - 1, Unset, cmKeysAll, <<>>) >>
         [] t = 3 ->
              << HistRow(Card1, HsNow - 1, Unset, YgoColumns,
                         (YgoTcgplayerPrice :> Str(<<"1", ".", "5">>)) @@ (YgoEbayPrice :> Str(<<"2">>))),
                 HistRow(Card1, HsNow - 200, Unset, YgoColumns,
                         (YgoCardmarketPrice :> Str(<<"1", ".", "2", "5">>))),
                 HistRow(Card3, HsNow - 1, Unset, YgoColumns, <<>>) >>]

\* ORDER BY captured_at ASC
RECURSIVE OrderByCapturedAt(_)
OrderByCapturedAt(rows) ==
    IF rows = <<>> THEN <<>>
    ELSE LET i == CHOOSE j \in 1..Len(rows) :
                    /\ \A k \in 1..Len(rows) : rows[j].captured_at <= rows[k].captured_at
                    /\ \A k \in 1..(j - 1) : rows[k].captured_at # rows[j].captured_at
         IN <<rows[i]>>
            \o OrderByCapturedAt(SubSeq(rows, 1, i - 1) \o SubSeq(rows, i + 1, Len(rows)))

\* SELECT ... FROM <history table t> WHERE card_id = cardId
\*   AND captured_at >= now() - days * interval '1 day' ORDER BY captured_at ASC
Query(db, t, cardId, days) ==
    OrderByCapturedAt(
      SelectSeq(db[t], LAMBDA r : r.card_id = cardId /\ r.captured_at >= HsNow - days))

\* tpCur: the currency of the first row, USD unless it reads EUR
tpCurOf(rows) ==
    IF rows # <<>> /\ rows[1].currency.set /\ ToUpperCase(rows[1].currency.v) = <<"E", "U", "R">>
    THEN "EUR" ELSE "USD"

\* The points of one series: one per row, in the order of the rows.  t is
\* the instant the ISO text of toISO(captured_at) denotes.
PointsOf(rows, key, cur, display, fx) ==
    [i \in 1..Len(rows) |->
       [t       |-> rows[i].captured_at,
        native  |-> num(rows[i].cols[key]),
        display |-> convMaybe(num(rows[i].cols[key]), cur, display, fx)]]

\* Variant of addSeries: a series without a known price is left out
addSeriesWithData(rows, market, idKey, key, cur, display, kf, fx) ==
    IF kf.given /\ key \notin kf.set THEN <<>>
    ELSE IF \A i \in 1..Len(rows) : num(rows[i].cols[key]) = Null THEN <<>>
    ELSE << [id |-> market \o <<":">> \o idKey, market |-> market, key |-> key,
             nativeCurrency |-> cur, points |-> PointsOf(rows, key, cur, display, fx)] >>

\* The body of the key loops of loadPokemonSeries and add() of
\* loadYgoSeries: nothing when the keys filter excludes the key, else the
\* series of the key (as a sequence of zero or one series)
addSeries(rows, market, idKey, key, cur, display, kf, fx) ==
    IF kf.given /\ key \notin kf.set THEN <<>>
    ELSE << [id |-> market \o <<":">> \o idKey, market |-> market, key |-> key,
             nativeCurrency |-> cur, points |-> PointsOf(rows, key, cur, display, fx)] >>

\* for (const key of keys) ...
RECURSIVE ForKeys(_, _, _, _, _, _, _)
ForKeys(keys, rows, market, cur, display, kf, fx) ==
    IF keys = <<>> THEN <<>>
    ELSE addSeries(rows, market, keys[1], keys[1], cur, display, kf, fx)
         \o ForKeys(Tail(keys), rows, market, cur, display, kf, fx)

\* loadPokemonSeries(cardId, days, display, marketsFilter, keysFilter)
loadPokemonSeries(db, cardId, days, display, mf, kf, fx) ==
    LET tpRows == Query(db, 1, cardId, days)
        cmRows == Query(db, 2, cardId, days)
    IN (IF Passes(mf, TCGPLAYER)
        THEN ForKeys(tpKeysAll, tpRows, TCGplayerName, tpCurOf(tpRows), display, kf, fx)
        ELSE <<>>)
       \o (IF Passes(mf, CARDMARKET)
           THEN ForKeys(cmKeysAll, cmRows, CardmarketName, "EUR", display, kf, fx)
           ELSE <<>>)

\* loadYgoSeries(cardId, days, display, marketsFilter, keysFilter)
loadYgoSeries(db, cardId, days, display, mf, kf, fx) ==
    LET rows == Query(db, 3, cardId, days)
        add(m, market, key, cur) ==
            IF Passes(mf, m)
            THEN addSeries(rows, market, PriceKey, key, cur, display, kf, fx)
            ELSE <<>>
    IN add(TCGPLAYER, TCGplayerName, YgoTcgplayerPrice, "USD")
       \o add(CARDMARKET, CardmarketName, YgoCardmarketPrice, "EUR")
       \o add(EBAY, EBayName, YgoEbayPrice, "USD")
       \o add(AMAZON, AmazonName, YgoAmazonPrice, "USD")
       \o add(COOLSTUFFINC, CoolStuffIncName, YgoCoolstuffincPrice, "USD")

POKEMON == <<"p", "o", "k", "e", "m", "o", "n">>
YUGIOH  == <<"y", "u", "g", "i", "o", "h">>

NoResponse ==
    [status |-> 0, error |-> "", category |-> <<>>, cardId |-> <<>>,
     display |-> "NATIVE", fx |-> [usdToEur |-> Null, eurToUsd |-> Null],
     days |-> Null, series |-> <<>>]

HsOff ==
    /\ hsPc = "off" /\ hsEnv = [usdEur |-> Unset, eurUsd |-> Unset]
    /\ hsDb = <<>> /\ hsReq = <<>> /\ hsResp = NoResponse

\* GET: the response to request req over the tables db
GET(req, db, env) ==
    LET category == ToLowerCase(req.category)
        cardId   == Trim(req.cardId)
    IN
    IF cardId = <<>>
    THEN [NoResponse EXCEPT !.status = 400, !.error = "Missing cardId"]
    ELSE IF category # POKEMON /\ category # YUGIOH
    THEN [NoResponse EXCEPT !.status = 400, !.error = "Unsupported category"]
    ELSE
      LET display == readDisplay(req.display)
          days    == clampDays(ToNumber(FlagOr(req.days, <<"9", "0">>)))
          fx      == getFx(env.usdEur, env.eurUsd)
          mf      == marketsFilterOf(req.markets)
          kf      == keysFilterOf(req.keys)
          series  == IF category = POKEMON
                     THEN loadPokemonSeries(db, cardId, Floor(days), display, mf, kf, fx)
                     ELSE loadYgoSeries(db, cardId, Floor(days), display, mf, kf, fx)
      IN [status |-> 200, error |-> "", category |-> category, cardId |-> cardId,
          display |-> display, fx |-> fx, days |-> days, series |-> series]

\* Requests
HsCategories == { POKEMON, <<"Y", "u", "g", "i", "o", "h">>, <<"s", "p", "o", "r", "t", "s">> }
HsCardIds    == { Card1, Card2, Card3, <<" ">> }
HsDays ==
    { Unset,
      Str(<<"-", "5">>),
      Str(<<"9", "9", "9", "9">>),
      Str(<<"a", "b", "c">>),
      Str(<<"7", ".", "9">>) }
HsMarkets ==
    { Unset,
      Str(<<"t", "c", "g", "p", "l", "a", "y", "e", "r">>),
      Str(<<"T", "C", "G", "P", "L", "A", "Y", "E", "R">>),
      Str(<<"C", "a", "r", "d", "m", "a", "r", "k", "e", "t", ",", " ", "e", "b", "a", "y">>) }
HsKeys ==
    { Unset,
      Str(<<"n", "o", "r", "m", "a", "l">>),
      Str(<<"N", "O", "R", "M", "A", "L">>),
      Str(<<" ", "t", "r", "e", "n", "d", "_", "p", "r", "i", "c", "e", " ", ",", "t", "c", "g", "p", "l", "a", "y", "e", "r", "_", "p", "r", "i", "c", "e">>) }
HsDisplays == { Unset, Str(<<"e", "u", "r">>) }
HsEnvs ==
    { [usdEur |-> Unset, eurUsd |-> Unset], [usdEur |-> Str(<<"0", ".", "8">>), eurUsd |-> Unset] }

HsInit ==
    /\ hsPc = "request"
    /\ hsEnv \in HsEnvs
    /\ hsDb = HsHistory
    /\ hsReq \in [category : HsCategories, cardId : HsCardIds, days : HsDays,
                  markets : HsMarkets, keys : HsKeys, display : HsDisplays]
    /\ hsResp = NoResponse

\* The endpoint answers the request
HsGET ==
    /\ hsPc = "request"
    /\ hsResp' = GET(hsReq, hsDb, hsEnv)
    /\ hsPc' = "responded"
    /\ UNCHANGED <<hsEnv, hsDb, hsReq>>
    /\ HsFrame

-----------------------------------------------------------------------------
(***************************************************************************)
(* Properties of the price-history endpoint                                *)
(***************************************************************************)
HsAnswered == hsPc = "responded" /\ hsResp.status = 200

\* The number the days parameter of the request denotes
DaysAsked == ToNumber(FlagOr(hsReq.days, <<"9", "0">>))

\* C15: the effective days value is an integer between 1 and 365; -5 gives
\* 1, 9999 gives 365, a non-finite value gives 90 and a request without the
\* parameter uses 90.
C15_DaysClamped ==
    HsAnswered =>
      /\ hsResp.days.k = "num" /\ hsResp.days.n % hsResp.days.d = 0
      /\ NumGe(hsResp.days, Num(1, 1)) /\ NumLe(hsResp.days, Num(365, 1))
      /\ hsReq.days = Str(<<"-", "5">>) => NumEq(hsResp.days, Num(1, 1))
      /\ hsReq.days = Str(<<"9", "9", "9", "9">>) => NumEq(hsResp.days, Num(365, 1))
      /\ ~IsFinite(DaysAsked) => NumEq(hsResp.days, Num(90, 1))
      /\ ~hsReq.days.set => NumEq(hsResp.days, Num(90, 1))

\* A request asked for more days than the limit
C15_Witness ==
    /\ HsAnswered
    /\ hsReq.days = Str(<<"9", "9", "9", "9">>)
    /\ NumEq(hsResp.days, Num(365, 1))

\* The (market, metric) pairs of a category, by the market's filter name
KnownPairs(category) ==
    IF category = POKEMON
    THEN {<<TCGPLAYER, k>> : k \in SetOf(tpKeysAll)}
         \cup {<<CARDMARKET, k>> : k \in SetOf(cmKeysAll)}
    ELSE { <<TCGPLAYER, YgoTcgplayerPrice>>, <<CARDMARKET, YgoCardmarketPrice>>,
           <<EBAY, YgoEbayPrice>>, <<AMAZON, YgoAmazonPrice>>,
           <<COOLSTUFFINC, YgoCoolstuffincPrice>> }

\* The pairs of the series of the response
ReturnedPairs ==
    {<<ToLowerCase(hsResp.series[i].market), hsResp.series[i].key>> :
        i \in DOMAIN hsResp.series}

\* A filter parameter is given when it is present and not empty
Given(param) == param.set /\ param.v # <<>>

\* name matches an entry of the comma-separated list, ignoring letter case
MatchesIgnoringCase(param, name) ==
    \E e \in SetOf(SplitComma(param.v)) : ToLowerCase(Trim(e)) = ToLowerCase(name)

\* C16: both filters are case-insensitive allow-lists: a series is returned
\* exactly when its market matches an entry of markets and its metric an
\* entry of keys, ignoring letter case (an absent filter allows everything).
C16_FiltersIgnoreCase ==
    HsAnswered =>
      \A p \in KnownPairs(hsResp.category) :
        p \in ReturnedPairs <=>
          /\ Given(hsReq.markets) => MatchesIgnoringCase(hsReq.markets, p[1])
          /\ Given(hsReq.keys) => MatchesIgnoringCase(hsReq.keys, p[2])

\* The markets filter alone is such an allow-list
MarketsFilterIgnoresCase ==
    HsAnswered /\ ~Given(hsReq.keys) =>
      \A p \in KnownPairs(hsResp.category) :
        p \in ReturnedPairs <=>
          (Given(hsReq.markets) => MatchesIgnoringCase(hsReq.markets, p[1]))

\* The history table a series is read from
SourceTable(category, market) ==
    IF category = YUGIOH THEN 3 ELSE IF ToLowerCase(market) = TCGPLAYER THEN 1 ELSE 2

\* C17: without filters the response has one series for every known pair of
\* the category (9 for pokemon, 5 for yugioh), also for pairs without any
\* price; the series of one source table have equally many points, each in
\* ascending captured_at order.
C17_AllSeriesWithoutFilters ==
    HsAnswered /\ ~Given(hsReq.markets) /\ ~Given(hsReq.keys) =>
      LET ser == hsResp.series IN
      /\ Len(ser) = IF hsResp.category = POKEMON THEN 9 ELSE 5
      /\ ReturnedPairs = KnownPairs(hsResp.category)
      /\ \A i, j \in DOMAIN ser :
           SourceTable(hsResp.category, ser[i].market)
             = SourceTable(hsResp.category, ser[j].market)
           => Len(ser[i].points) = Len(ser[j].points)
      /\ \A i \in DOMAIN ser : \A a, b \in DOMAIN ser[i].points :
           a < b => ser[i].points[a].t <= ser[i].points[b].t

\* An unfiltered answer held a series without points, a series whose points
\* are all null and a series of two points
C17_Witness ==
    /\ HsAnswered /\ ~Given(hsReq.markets) /\ ~Given(hsReq.keys)
    /\ \E i \in DOMAIN hsResp.series :
         /\ Len(hsResp.series[i].points) = 2
         /\ hsResp.series[i].points[1].native # Null
    /\ \E i \in DOMAIN hsResp.series :
         /\ hsResp.series[i].points # <<>>
         /\ \A a \in DOMAIN hsResp.series[i].points :
              hsResp.series[i].points[a].native = Null

\* An unfiltered answer for a card without any history row
NoPointsAtAll ==
    /\ HsAnswered /\ ~Given(hsReq.markets) /\ ~Given(hsReq.keys)
    /\ hsResp.series # <<>>
    /\ \A i \in DOMAIN hsResp.series : hsResp.series[i].points = <<>>

-----------------------------------------------------------------------------
(***************************************************************************)
(* Specifications: one per program, the other programs switched off        *)
(***************************************************************************)
InitFx == FxInit /\ HsOff /\ PrOff /\ SnOff /\ HvOff
NextFx == GetFx
SpecFx == InitFx /\ [][NextFx]_vars

InitPricing == PrInit /\ HsOff /\ FxOff /\ SnOff /\ HvOff
NextPricing == PrNext
SpecPricing == InitPricing /\ [][NextPricing]_vars

InitHistory == HsInit /\ FxOff /\ PrOff /\ SnOff /\ HvOff
NextHistory == HsGET
SpecHistory == InitHistory /\ [][NextHistory]_vars

InitSnapshot == SnInit /\ HsOff /\ FxOff /\ PrOff /\ HvOff
NextSnapshot == SnNext
SpecSnapshot == InitSnapshot /\ [][NextSnapshot]_vars

InitHarvest == HvInit /\ HsOff /\ FxOff /\ PrOff /\ SnOff
NextHarvest == HvNext
SpecHarvest == InitHarvest /\ [][NextHarvest]_vars

\* Any one of the programs
\* The harvester started with --only-missing-ebay, and the table probe
InitFreshness == HvInitFreshness /\ HsOff /\ FxOff /\ PrOff /\ SnOff
NextFreshness == HvNext \/ HvProbeResolves
SpecFreshness == InitFreshness /\ [][NextFreshness]_vars

\* poolRun on its own, for every batch, with calls that all settle
InitPool == HvInitPool /\ HsOff /\ FxOff /\ PrOff /\ SnOff
NextPool == HvPoolRun \/ HvCallSettles \/ HvCallCloses
SpecPool == InitPool /\ [][NextPool]_vars

\* The harvester with calls that all settle and a process that is not
\* killed: the event loop runs every callback that is ready
InitHarvestLive == HvInitLive /\ HsOff /\ FxOff /\ PrOff /\ SnOff
NextHarvestLive ==
    \/ HvFatal \/ HvStart
    \/ HvBatchEmpty \/ HvBatchDry \/ HvBatchDispatch
    \/ HvCallSettles \/ HvCallCloses
    \/ HvAdvance \/ HvSleep
    \/ HvRestart
SpecHarvestLive ==
    /\ InitHarvestLive /\ [][NextHarvestLive]_vars
    /\ WF_vars(HvStart)
    /\ WF_vars(HvBatchEmpty) /\ WF_vars(HvBatchDry) /\ WF_vars(HvBatchDispatch)
    /\ WF_vars(HvCallSettles) /\ WF_vars(HvCallCloses)
    /\ WF_vars(HvAdvance) /\ WF_vars(HvSleep)

Init ==
    InitFx \/ InitPricing \/ InitHistory \/ InitSnapshot \/ InitHarvest \/ InitFreshness
Next ==
    NextFx \/ NextPricing \/ NextHistory \/ NextSnapshot \/ NextHarvest \/ NextFreshness
Spec == Init /\ [][Next]_vars

====
